---- MODULE Spec2Model ----
(***************************************************************************)
(* Model of codegenie.  The repository scanner (utils/file_scanner.py):    *)
(* FileScanner.should_ignore, detect_language, generate_file_tree,         *)
(* get_all_files, find_readme and find_entry_points, run against a small   *)
(* filesystem.  The symbol extractors (utils/code_parser.py):              *)
(* parse_python_file, parse_jac_file and parse_javascript_file.  The       *)
(* repository fetcher (utils/git_operations.py): GitHandler.               *)
(* validate_github_url, extract_repo_name and clone_repository, run        *)
(* against a small disk.  The progress tracker of the front end            *)
(* (frontend/app.py: render_progress_tracker) and the client holder        *)
(* (config/llm_config.py: LLMConfig).  Each has its own specification;     *)
(* the variables of the others stay as they are.  Strings are sequences    *)
(* of one-character strings so that splitting, joining, lower-casing,      *)
(* code-point ordering and pattern matching are computed as Python         *)
(* computes them.                                                          *)
(***************************************************************************)
EXTENDS Integers, Sequences, FiniteSets, TLC

VARIABLES fs, root_path, ignored_dirs, max_depth, tree, prev_tree, enumerated, parsed,
          frames, git, tracker, llm

vars == <<fs, root_path, ignored_dirs, max_depth, tree, prev_tree, enumerated, parsed,
          frames, git, tracker, llm>>

(***************************************************************************)
(* Characters and strings                                                  *)
(***************************************************************************)

\* The printable ASCII characters in code-point order, starting at 32 (the
\* double quote, the backslash and the backtick, which no file name here uses,
\* are spelled out).
Ascii ==
  << " ", "!", "dquote", "#", "$", "%", "&", "'", "(", ")", "*", "+", ",", "-", ".", "/",
     "0", "1", "2", "3", "4", "5", "6", "7", "8", "9", ":", ";", "<", "=", ">", "?",
     "@", "A", "B", "C", "D", "E", "F", "G", "H", "I", "J", "K", "L", "M", "N", "O",
     "P", "Q", "R", "S", "T", "U", "V", "W", "X", "Y", "Z", "[", "backslash", "]", "^", "_",
     "backtick", "a", "b", "c", "d", "e", "f", "g", "h", "i", "j", "k", "l", "m", "n", "o",
     "p", "q", "r", "s", "t", "u", "v", "w", "x", "y", "z", "{", "|", "}", "~" >>

\* ord(c): the code point of a character.
Ord == [c \in {Ascii[i] : i \in 1..Len(Ascii)} |->
          31 + (CHOOSE i \in 1..Len(Ascii) : Ascii[i] = c)]

\* str.lower() on one character.
LowerChar == [c \in DOMAIN Ord |->
                IF Ord[c] >= 65 /\ Ord[c] <= 90 THEN Ascii[Ord[c] + 32 - 31] ELSE c]

\* str.lower()
Lower(s) == [i \in 1..Len(s) |-> LowerChar[s[i]]]

\* Python's  a < b  on str: lexicographic by code point.
RECURSIVE StrLess(_, _)
StrLess(a, b) ==
  IF b = <<>> THEN FALSE
  ELSE IF a = <<>> THEN TRUE
  ELSE IF a[1] # b[1] THEN Ord[a[1]] < Ord[b[1]]
  ELSE StrLess(Tail(a), Tail(b))

\* str.endswith(suffix)
EndsWith(s, suffix) ==
  /\ Len(suffix) <= Len(s)
  /\ SubSeq(s, Len(s) - Len(suffix) + 1, Len(s)) = suffix

\* str.count(ch) for a one-character argument.
RECURSIVE Count(_, _)
Count(s, ch) ==
  IF s = <<>> THEN 0
  ELSE (IF s[1] = ch THEN 1 ELSE 0) + Count(Tail(s), ch)

\* x in list
InList(x, list) == \E i \in 1..Len(list) : list[i] = x

\* The elements of a list, as a set.
Elems(list) == {list[i] : i \in 1..Len(list)}

\* None, where a dict is expected.
None == [type |-> "None"]

\* None, where a str or a list is expected: a value no string of characters equals.
NoneStr == <<"None">>

(***************************************************************************)
(* Paths (os.path, pathlib)                                                *)
(***************************************************************************)

\* os.sep
Sep == "/"

\* str.split(os.sep): the pieces between separators, empty pieces included.
RECURSIVE SplitSep(_, _)
SplitSep(s, cur) ==
  IF s = <<>> THEN <<cur>>
  ELSE IF s[1] = Sep THEN <<cur>> \o SplitSep(Tail(s), <<>>)
  ELSE SplitSep(Tail(s), Append(cur, s[1]))

\* The non-empty components of a path string.
Components(path) == SelectSeq(SplitSep(path, <<>>), LAMBDA c : c # <<>>)

\* Path(path).parts: the anchor "/" if the path is absolute, then every
\* component that is neither empty nor ".".
Parts(path) ==
  (IF path # <<>> /\ path[1] = Sep THEN << <<Sep>> >> ELSE <<>>)
    \o SelectSeq(SplitSep(path, <<>>), LAMBDA c : c # <<>> /\ c # <<".">>)

\* os.path.join(a, b)
Join(a, b) ==
  IF b # <<>> /\ b[1] = Sep THEN b
  ELSE IF a = <<>> \/ a[Len(a)] = Sep THEN a \o b
  ELSE a \o <<Sep>> \o b

\* os.path.basename(path): what follows the last separator.
Basename(path) ==
  LET seps == {i \in 1..Len(path) : path[i] = Sep}
      last == IF seps = {} THEN 0 ELSE CHOOSE i \in seps : \A j \in seps : j <= i
  IN  SubSeq(path, last + 1, Len(path))

\* os.path.splitext(name)[1]: from the last dot on, unless only dots precede it.
SplitextExt(name) ==
  LET base == Basename(name)
      dots == {i \in 1..Len(base) : base[i] = "."}
      last == IF dots = {} THEN 0 ELSE CHOOSE i \in dots : \A j \in dots : j <= i
  IN  IF last = 0 \/ (\A j \in 1..(last - 1) : base[j] = ".")
      THEN <<>>
      ELSE SubSeq(base, last, Len(base))

(***************************************************************************)
(* The filesystem.  A node is a file [kind, size], a directory             *)
(* [kind, readable, entries] whose entries map names to nodes, or a        *)
(* symbolic link [kind, target]; fs is the directory that relative paths   *)
(* start from.  A link's target is a path from that directory, and no      *)
(* target leads through another link.  A directory that is not readable    *)
(* can be traversed but not listed.                                        *)
(***************************************************************************)

Missing == [kind |-> "missing"]

\* Path resolution as stat() does it: every link met on the way is followed.
RECURSIVE Walk(_, _, _)
Walk(F, node, segs) ==
  IF node.kind = "link" THEN Walk(F, Walk(F, F, Components(node.target)), segs)
  ELSE IF segs = <<>> THEN node
  ELSE IF node.kind = "dir" /\ Head(segs) \in DOMAIN node.entries
       THEN Walk(F, node.entries[Head(segs)], Tail(segs))
       ELSE Missing

\* os.stat(path); a trailing separator demands a directory.
Stat(F, path) ==
  LET node == Walk(F, F, Components(path))
  IN  IF path # <<>> /\ path[Len(path)] = Sep /\ node.kind # "dir" THEN Missing ELSE node

\* os.lstat(path): the last component is not followed.
Lstat(F, path) ==
  LET segs == Components(path)
  IN  IF segs = <<>> THEN F
      ELSE LET parent == Walk(F, F, SubSeq(segs, 1, Len(segs) - 1))
               last   == segs[Len(segs)]
           IN  IF parent.kind = "dir" /\ last \in DOMAIN parent.entries
               THEN parent.entries[last] ELSE Missing

\* os.path.isfile, os.path.isdir, os.path.exists, os.path.islink, os.path.getsize
IsFile(F, path) == Stat(F, path).kind = "file"
IsDir(F, path)  == Stat(F, path).kind = "dir"
Exists(F, path) == Stat(F, path).kind # "missing"
IsLink(F, path) == Lstat(F, path).kind = "link"
GetSize(F, path) == Stat(F, path).size

\* An enumeration of a finite set.
RECURSIVE SetToSeq(_)
SetToSeq(S) ==
  IF S = {} THEN <<>>
  ELSE LET x == CHOOSE x \in S : TRUE IN <<x>> \o SetToSeq(S \ {x})

\* The order in which the filesystem hands out the entries of a directory is
\* arbitrary: some enumeration, rotated by order.rot and reversed if order.rev.
Arrange(names, order) ==
  LET n   == Len(names)
      rot == [i \in 1..n |-> names[((i - 1 + order.rot) % n) + 1]]
  IN  IF order.rev THEN [i \in 1..n |-> rot[n + 1 - i]] ELSE rot

\* os.listdir(path): the names in the directory, or PermissionError.
Listdir(F, path, order) ==
  LET node == Stat(F, path)
  IN  IF node.kind = "dir" /\ ~node.readable
      THEN [raised |-> "PermissionError", names |-> <<>>]
      ELSE IF node.kind # "dir"
      THEN [raised |-> "OSError", names |-> <<>>]
      ELSE [raised |-> "", names |-> Arrange(SetToSeq(DOMAIN node.entries), order)]

\* sorted(list of str): insertion into an ascending list.
RECURSIVE Insert(_, _)
Insert(x, sortedSeq) ==
  IF sortedSeq = <<>> THEN <<x>>
  ELSE IF StrLess(x, Head(sortedSeq)) THEN <<x>> \o sortedSeq
  ELSE <<Head(sortedSeq)>> \o Insert(x, Tail(sortedSeq))

\* The listing used in the order the filesystem gave it.
Unsorted(list) == list

RECURSIVE Sorted(_)
Sorted(list) ==
  IF list = <<>> THEN <<>> ELSE Insert(list[Len(list)], Sorted(SubSeq(list, 1, Len(list) - 1)))

(***************************************************************************)
(* FileScanner                                                             *)
(***************************************************************************)

DefaultIgnoredDirs ==
  << <<".","g","i","t">>,
     <<"n","o","d","e","_","m","o","d","u","l","e","s">>,
     <<"v","e","n","v">>,
     <<".","v","e","n","v">>,
     <<"_","_","p","y","c","a","c","h","e","_","_">>,
     <<".","p","y","t","e","s","t","_","c","a","c","h","e">>,
     <<"d","i","s","t">>,
     <<"b","u","i","l","d">>,
     <<".","i","d","e","a">>,
     <<".","v","s","c","o","d","e">> >>

\* self.language_extensions, in insertion order.
language_extensions ==
  << [language |-> "python",     extensions |-> << <<".","p","y">> >>],
     [language |-> "jac",        extensions |-> << <<".","j","a","c">> >>],
     [language |-> "javascript", extensions |-> << <<".","j","s">>, <<".","j","s","x">>,
                                                   <<".","t","s">>, <<".","t","s","x">> >>],
     [language |-> "java",       extensions |-> << <<".","j","a","v","a">> >>],
     [language |-> "cpp",        extensions |-> << <<".","c","p","p">>, <<".","h">>,
                                                   <<".","h","p","p">> >>] >>

\* The ignored names compared with the whole path instead of its parts.
should_ignore_whole_path(path) == InList(path, ignored_dirs)

\* should_ignore(path): some ignored name is one of the parts of the path.
should_ignore(path) ==
  LET path_parts == Parts(path)
  IN  \E i \in 1..Len(ignored_dirs) : InList(ignored_dirs[i], path_parts)

\* detect_language without its final return: no tag for an unlisted extension.
detect_language_no_default(filename) ==
  LET ext  == Lower(SplitextExt(filename))
      hits == {i \in 1..Len(language_extensions) : InList(ext, language_extensions[i].extensions)}
  IN  IF hits = {} THEN "None"
      ELSE language_extensions[CHOOSE i \in hits : \A j \in hits : i <= j].language

\* detect_language(filename): the first language whose list holds the
\* lower-cased extension, 'unknown' if none does.
detect_language(filename) ==
  LET ext  == Lower(SplitextExt(filename))
      hits == {i \in 1..Len(language_extensions) : InList(ext, language_extensions[i].extensions)}
  IN  IF hits = {} THEN "unknown"
      ELSE language_extensions[CHOOSE i \in hits : \A j \in hits : i <= j].language

\* An exception that leaves a call.
Raised(exc) == [type |-> "raised", exc |-> exc]

\* The cutoff test taken one level too early, and one level too late.
beyond_depth_early(depth, maxd) == depth >= maxd
beyond_depth_late(depth, maxd) == depth > maxd + 1

\* The cutoff test of build_tree.
beyond_depth_never(depth, maxd) == FALSE

beyond_depth(depth, maxd) == depth > maxd

\* A build_tree without the handler.
caught_nothing(exc) == FALSE

\* except PermissionError: the exceptions the handler in build_tree catches.
caught(exc) == exc = "PermissionError"

\* build_tree(path, depth) inside generate_file_tree, and its loop over the
\* sorted listing.  The loop runs inside the try block: an exception stops it
\* and leaves the children appended so far.
RECURSIVE build_tree(_, _, _, _, _)
RECURSIVE build_children(_, _, _, _, _, _)
build_tree(F, maxd, order, path, depth) ==
  IF beyond_depth(depth, maxd) \/ should_ignore(path) THEN None
  ELSE
    LET name == Basename(path)
    IN  IF IsFile(F, path)
        THEN [name |-> name, type |-> "file", path |-> path,
              language |-> detect_language(name), size |-> GetSize(F, path)]
        ELSE IF IsDir(F, path)
        THEN LET ls   == Listdir(F, path, order)
                 loop == IF ls.raised # "" THEN [children |-> <<>>, raised |-> ls.raised]
                         ELSE build_children(F, maxd, order, path, Sorted(ls.names), depth)
             IN  IF loop.raised # "" /\ ~caught(loop.raised)
                 THEN Raised(loop.raised)
                 ELSE [name |-> name, type |-> "directory", path |-> path,
                       children |-> loop.children]
        ELSE None

build_children(F, maxd, order, path, items, depth) ==
  IF items = <<>> THEN [children |-> <<>>, raised |-> ""]
  ELSE LET child == build_tree(F, maxd, order, Join(path, Head(items)), depth + 1)
       IN  IF child.type = "raised" THEN [children |-> <<>>, raised |-> child.exc]
           ELSE LET rest == build_children(F, maxd, order, path, Tail(items), depth)
                IN  [children |-> (IF child # None THEN <<child>> ELSE <<>>) \o rest.children,
                     raised   |-> rest.raised]

\* generate_file_tree(root_path, max_depth)
generate_file_tree(F, root, maxd, order) == build_tree(F, maxd, order, root, 0)

\* os.walk(top), top-down, links to directories listed but not entered, errors
\* of the listing skipped.  The caller of get_all_files rewrites dirnames in
\* place before the walk descends: prune says whether that filter is applied.
\* The result is the list of (dirpath, dirnames, filenames) triples.
RECURSIVE walk(_, _, _, _)
RECURSIVE walk_into(_, _, _, _, _)
walk(F, top, order, prune) ==
  LET ls == Listdir(F, top, order)
  IN  IF ls.raised # "" THEN <<>>
      ELSE LET dirs     == SelectSeq(ls.names, LAMBDA n : IsDir(F, Join(top, n)))
               nondirs  == SelectSeq(ls.names, LAMBDA n : ~IsDir(F, Join(top, n)))
               dirnames == IF prune
                           THEN SelectSeq(dirs, LAMBDA d : ~should_ignore(Join(top, d)))
                           ELSE dirs
           IN  << [dirpath |-> top, dirnames |-> dirnames, filenames |-> nondirs] >>
                 \o walk_into(F, top, dirnames, order, prune)

walk_into(F, top, dirnames, order, prune) ==
  IF dirnames = <<>> THEN <<>>
  ELSE LET new_path == Join(top, Head(dirnames))
       IN  (IF IsLink(F, new_path) THEN <<>> ELSE walk(F, new_path, order, prune))
             \o walk_into(F, top, Tail(dirnames), order, prune)

\* The paths one triple contributes: dirpath joined with each accepted filename.
JoinAll(dirpath, filenames) == [i \in 1..Len(filenames) |-> Join(dirpath, filenames[i])]

RECURSIVE Flatten(_)
Flatten(lists) == IF lists = <<>> THEN <<>> ELSE Head(lists) \o Flatten(Tail(lists))

\* get_all_files(root_path, extensions); extensions is None or a list of suffixes.
get_all_files(F, root, extensions, order) ==
  LET triples == walk(F, root, order, TRUE)
      accept(filename) ==
        IF extensions # NoneStr /\ extensions # <<>>
        THEN \E i \in 1..Len(extensions) : EndsWith(filename, extensions[i])
        ELSE TRUE
  IN  Flatten([k \in 1..Len(triples) |->
                 JoinAll(triples[k].dirpath, SelectSeq(triples[k].filenames, accept))])

readme_patterns ==
  << <<"R","E","A","D","M","E",".","m","d">>,
     <<"r","e","a","d","m","e",".","m","d">>,
     <<"R","e","a","d","m","e",".","m","d">>,
     <<"R","E","A","D","M","E",".","r","s","t">>,
     <<"R","E","A","D","M","E",".","t","x","t">>,
     <<"R","E","A","D","M","E">> >>

\* find_readme that keeps looking after a match: the last pattern that exists.
find_readme_last(F, root) ==
  LET hits == {i \in 1..Len(readme_patterns) : Exists(F, Join(root, readme_patterns[i]))}
  IN  IF hits = {} THEN NoneStr
      ELSE Join(root, readme_patterns[CHOOSE i \in hits : \A j \in hits : i >= j])

\* find_readme(root_path): the first pattern that exists under the root.
find_readme(F, root) ==
  LET hits == {i \in 1..Len(readme_patterns) : Exists(F, Join(root, readme_patterns[i]))}
  IN  IF hits = {} THEN NoneStr
      ELSE Join(root, readme_patterns[CHOOSE i \in hits : \A j \in hits : i <= j])

entry_patterns ==
  << <<"m","a","i","n",".","p","y">>,
     <<"a","p","p",".","p","y">>,
     <<"_","_","m","a","i","n","_","_",".","p","y">>,
     <<"r","u","n",".","p","y">>,
     <<"s","e","r","v","e","r",".","p","y">>,
     <<"i","n","d","e","x",".","p","y">>,
     <<"s","t","a","r","t",".","p","y">>,
     <<"m","a","i","n",".","j","a","c">>,
     <<"a","p","p",".","j","a","c">>,
     <<"s","e","r","v","e","r",".","j","a","c">> >>

\* find_entry_points(root_path)
find_entry_points(F, root, order) ==
  LET triples == walk(F, root, order, FALSE)
      lowered == [i \in 1..Len(entry_patterns) |-> Lower(entry_patterns[i])]
      hit(filename) == InList(Lower(filename), lowered)
      depth(dirpath) == Count(SubSeq(dirpath, Len(root) + 1, Len(dirpath)), Sep)
  IN  Flatten([k \in 1..Len(triples) |->
                 IF depth(triples[k].dirpath) > 1 THEN <<>>
                 ELSE JoinAll(triples[k].dirpath, SelectSeq(triples[k].filenames, hit))])

(***************************************************************************)
(* The filesystems and calls the scanner is run on                         *)
(***************************************************************************)

\* Names and paths used below, spelled as strings of characters.
n_README_md == <<"R","E","A","D","M","E",".","m","d">>
n_readme_md == <<"r","e","a","d","m","e",".","m","d">>
n_README_bare == <<"R","E","A","D","M","E">>
n_main_py == <<"m","a","i","n",".","p","y">>
n_App_PY == <<"A","p","p",".","P","Y">>
n_run_py == <<"r","u","n",".","p","y">>
n_lib_h == <<"l","i","b",".","h">>
n_x_js == <<"x",".","j","s">>
n_util_ts == <<"u","t","i","l",".","t","s">>
n_s_py == <<"s",".","p","y">>
n_config == <<"c","o","n","f","i","g">>
n_notes == <<"n","o","t","e","s">>
n_a == <<"a">>
n_b == <<"b">>
n_c == <<"c">>
n_s == <<"s">>
n_dot_git == <<".","g","i","t">>
n_node_modules == <<"n","o","d","e","_","m","o","d","u","l","e","s">>
n_build == <<"b","u","i","l","d">>
n_dist == <<"d","i","s","t">>
n_dlink == <<"d","l","i","n","k">>
n_flink == <<"f","l","i","n","k">>
n_dead == <<"d","e","a","d">>
n_up == <<"u","p">>
n_repo == <<"r","e","p","o">>
n_repo_slash == <<"r","e","p","o","/">>
n_ext == <<"e","x","t">>
n_locked == <<"l","o","c","k","e","d">>
n_empty == <<"e","m","p","t","y">>
n_nope == <<"n","o","p","e">>
n_ext_s_py == <<"e","x","t","/","s",".","p","y">>
n_nowhere == <<"n","o","w","h","e","r","e">>
n_ReadMe_MD == <<"R","e","a","d","M","e",".","M","D">>
n_dot_env == <<".","e","n","v">>
n_m_pyc == <<"m",".","p","y","c">>

File(size) == [kind |-> "file", size |-> size]
Dir(entries) == [kind |-> "dir", readable |-> TRUE, entries |-> entries]
LockedDir(entries) == [kind |-> "dir", readable |-> FALSE, entries |-> entries]
Link(target) == [kind |-> "link", target |-> target]
NoEntries == [n \in {} |-> Missing]

\* README-like files in the root.
ReadmeOptions ==
  { NoEntries,
    n_README_md :> File(3) @@ n_readme_md :> File(4),
    n_readme_md :> File(4) @@ n_README_bare :> File(2) }

\* Entry-point files and ignored names in the root.
RootOptions ==
  { NoEntries,
    n_main_py :> File(1) @@ n_dot_git :> Dir(n_config :> File(5)),
    n_App_PY :> File(1) @@ n_node_modules :> Dir(n_main_py :> File(6)),
    n_main_py :> File(1) @@ n_dist :> File(7) }

\* The subdirectory a: absent, a chain of nested directories, unreadable,
\* holding an ignored directory, holding links (to a directory and a file
\* outside the root, and a dangling one), holding a link back to the root.
SubtreeOptions ==
  { NoEntries,
    n_a :> Dir(n_main_py :> File(1)
               @@ n_b :> Dir(n_notes :> File(2) @@ n_App_PY :> File(4)
                             @@ n_c :> Dir(n_run_py :> File(3)))),
    n_a :> LockedDir(n_main_py :> File(1)),
    n_a :> Dir(n_lib_h :> File(2) @@ n_build :> Dir(n_x_js :> File(3))),
    n_a :> Dir(n_dlink :> Link(n_ext) @@ n_flink :> Link(n_ext_s_py) @@ n_dead :> Link(n_nowhere)),
    n_a :> Dir(n_run_py :> File(1) @@ n_up :> Link(n_repo)) }

\* The sibling directory s: absent, readable, unreadable.
SiblingOptions ==
  { NoEntries,
    n_s :> Dir(n_util_ts :> File(8) @@ n_b :> Dir(n_main_py :> File(9))),
    n_s :> LockedDir(n_util_ts :> File(8)) }

\* The directory relative paths start from: the repository snapshot repo, a
\* directory ext outside it, an unreadable directory, an empty one, and the
\* snapshot of a repository named build.
Top(repoEntries) ==
  Dir(n_repo :> Dir(repoEntries)
      @@ n_ext :> Dir(n_s_py :> File(10))
      @@ n_locked :> LockedDir(n_main_py :> File(1))
      @@ n_empty :> Dir(NoEntries)
      @@ n_build :> Dir(n_main_py :> File(1)))

\* A root whose only README-like file is spelled in a case of its own, with a
\* hidden file and a compiled file beside it.
OddNameFilesystems ==
  { Top(n_ReadMe_MD :> File(3) @@ n_dot_env :> File(2) @@ n_m_pyc :> File(5)
        @@ n_a :> Dir(n_main_py :> File(1))) }

\* What lies in the root and what lies below it are varied separately: every
\* choice of root files with a fixed subtree, every choice of subtrees with
\* fixed root files.
Filesystems ==
  { Top(r @@ e @@ n_a :> Dir(n_main_py :> File(1))) :
      r \in ReadmeOptions, e \in RootOptions }
  \cup
  { Top(n_readme_md :> File(4) @@ n_main_py :> File(1) @@ a @@ s) :
      a \in SubtreeOptions, s \in SiblingOptions }
  \cup OddNameFilesystems

\* The snapshots scanned from a root path written with a trailing separator.
SlashFilesystems ==
  { Top(n_readme_md :> File(4) @@ n_main_py :> File(1) @@ a) : a \in SubtreeOptions }

\* The base snapshot, used with the roots that are missing, unreadable, empty
\* or named like an ignored directory.
BaseFilesystem == Top(n_main_py :> File(1))

\* Largest max_depth a call is given.
MaxDepth == 2

\* Largest rotation of a directory listing.
MaxRot == 1

Orders == [rot : 0..MaxRot, rev : BOOLEAN]

IgnoreLists == { DefaultIgnoredDirs, << n_s, n_README_md >> }

ExtensionFilters == { NoneStr, << <<".","p","y">> >> }

\* The value of tree before the first call of generate_file_tree.
NotCalled == [type |-> "not called"]

\* The value of parsed before the first call of an extractor.
NotParsed == [op |-> "none"]

\* The value of a variable of a component that takes no part in a behaviour.
Unused == [state |-> "unused"]

\* The components a behaviour of one component leaves out: the scanner with
\* nothing scanned, the extractors with nothing parsed, and the rest unused.
ScannerUnused ==
  /\ fs = BaseFilesystem
  /\ root_path = n_empty
  /\ ignored_dirs = DefaultIgnoredDirs
  /\ max_depth = 0
  /\ tree = NotCalled
  /\ prev_tree = NotCalled
  /\ enumerated = [op |-> "none"]

ParserUnused == parsed = NotParsed
WalkUnused == frames = Unused
GitUnused == git = Unused
TrackerUnused == tracker = Unused
LlmUnused == llm = Unused

Init ==
  /\ \/ fs \in Filesystems /\ root_path = n_repo
     \/ fs \in SlashFilesystems /\ root_path = n_repo_slash
     \/ fs = BaseFilesystem /\ root_path \in {n_nope, n_locked, n_empty, n_build}
  /\ ignored_dirs \in IgnoreLists
  /\ max_depth \in 0..MaxDepth
  /\ tree = NotCalled
  /\ prev_tree = NotCalled
  /\ enumerated = [op |-> "none"]
  /\ ParserUnused /\ WalkUnused /\ GitUnused /\ TrackerUnused /\ LlmUnused

\* A call of generate_file_tree(root_path, max_depth); the result of the call
\* before it is kept in prev_tree.
GenerateFileTree ==
  \E order \in Orders :
    /\ tree' = generate_file_tree(fs, root_path, max_depth, order)
    /\ prev_tree' = tree
    /\ UNCHANGED <<fs, root_path, ignored_dirs, max_depth, enumerated, parsed,
                 frames, git, tracker, llm>>

\* A call of get_all_files(root_path, extensions); enumerated holds the
\* latest call of the file enumerator and its result.
GetAllFiles ==
  \E order \in Orders, extensions \in ExtensionFilters :
    /\ enumerated' = [op |-> "get_all_files", extensions |-> extensions,
                      paths |-> get_all_files(fs, root_path, extensions, order)]
    /\ UNCHANGED <<fs, root_path, ignored_dirs, max_depth, tree, prev_tree, parsed,
                 frames, git, tracker, llm>>

\* A call of find_entry_points(root_path).
FindEntryPoints ==
  \E order \in Orders :
    /\ enumerated' = [op |-> "find_entry_points",
                      paths |-> find_entry_points(fs, root_path, order)]
    /\ UNCHANGED <<fs, root_path, ignored_dirs, max_depth, tree, prev_tree, parsed,
                 frames, git, tracker, llm>>

\* A call of find_readme(root_path).
FindReadme ==
  /\ enumerated' = [op |-> "find_readme", path |-> find_readme(fs, root_path)]
  /\ UNCHANGED <<fs, root_path, ignored_dirs, max_depth, tree, prev_tree, parsed,
                 frames, git, tracker, llm>>

Next == GenerateFileTree \/ GetAllFiles \/ FindEntryPoints \/ FindReadme

Spec == Init /\ [][Next]_vars

(***************************************************************************)
(* The contents the extractors are run on: Python sources, each with the   *)
(* syntax tree ast.parse builds for it, texts that are not valid Python,   *)
(* and JavaScript and Jac texts.                                           *)
(***************************************************************************)

t_empty ==
  <<  >>

ast_empty ==
  [kind |-> "Module", children |-> <<>>]

t_scenario ==
  << "d","e","f"," ","r","u","n","(","a",","," ","b",")",":","\n"," ",
     " "," "," ","p","a","s","s","\n","\n","c","l","a","s","s"," ","W",
     "o","r","k","e","r","(","B","a","s","e","W","o","r","k","e","r",
     ")",":","\n"," "," "," "," ","d","e","f"," ","s","t","a","r","t",
     "(","s","e","l","f",")",":","\n"," "," "," "," "," "," "," "," ",
     "p","a","s","s","\n" >>

ast_scenario ==
  [kind |-> "Module", children |-> <<[kind |-> "FunctionDef", name |-> <<"r","u","n">>,
  args |-> [args |-> <<[arg |-> <<"a">>], [arg |-> <<"b">>]>>], lineno |-> 1,
  children |-> <<[kind |-> "arguments", children |-> <<[kind |-> "arg", children |-> <<>>],
  [kind |-> "arg", children |-> <<>>]>>], [kind |-> "Pass", children |-> <<>>]>>],
  [kind |-> "ClassDef", name |-> <<"W","o","r","k","e","r">>, lineno |-> 4,
  bases |-> <<[kind |-> "Name", id |-> <<"B","a","s","e","W","o","r","k","e","r">>,
  children |-> <<[kind |-> "Load", children |-> <<>>]>>]>>, body |-> <<[kind |-> "FunctionDef",
  name |-> <<"s","t","a","r","t">>, args |-> [args |-> <<[arg |-> <<"s","e","l","f">>]>>],
  lineno |-> 5, children |-> <<[kind |-> "arguments", children |-> <<[kind |-> "arg",
  children |-> <<>>]>>], [kind |-> "Pass", children |-> <<>>]>>]>>,
  children |-> <<[kind |-> "Name", id |-> <<"B","a","s","e","W","o","r","k","e","r">>,
  children |-> <<[kind |-> "Load", children |-> <<>>]>>], [kind |-> "FunctionDef",
  name |-> <<"s","t","a","r","t">>, args |-> [args |-> <<[arg |-> <<"s","e","l","f">>]>>],
  lineno |-> 5, children |-> <<[kind |-> "arguments", children |-> <<[kind |-> "arg",
  children |-> <<>>]>>], [kind |-> "Pass", children |-> <<>>]>>]>>]>>]

t_scenario_class_first ==
  << "c","l","a","s","s"," ","W","o","r","k","e","r","(","B","a","s",
     "e","W","o","r","k","e","r",")",":","\n"," "," "," "," ","d","e",
     "f"," ","s","t","a","r","t","(","s","e","l","f",")",":","\n"," ",
     " "," "," "," "," "," "," ","p","a","s","s","\n","\n","d","e","f",
     " ","r","u","n","(","a",","," ","b",")",":","\n"," "," "," "," ",
     "p","a","s","s","\n" >>

ast_scenario_class_first ==
  [kind |-> "Module", children |-> <<[kind |-> "ClassDef", name |-> <<"W","o","r","k","e","r">>,
  lineno |-> 1, bases |-> <<[kind |-> "Name",
  id |-> <<"B","a","s","e","W","o","r","k","e","r">>, children |-> <<[kind |-> "Load",
  children |-> <<>>]>>]>>, body |-> <<[kind |-> "FunctionDef", name |-> <<"s","t","a","r","t">>,
  args |-> [args |-> <<[arg |-> <<"s","e","l","f">>]>>], lineno |-> 2,
  children |-> <<[kind |-> "arguments", children |-> <<[kind |-> "arg", children |-> <<>>]>>],
  [kind |-> "Pass", children |-> <<>>]>>]>>, children |-> <<[kind |-> "Name",
  id |-> <<"B","a","s","e","W","o","r","k","e","r">>, children |-> <<[kind |-> "Load",
  children |-> <<>>]>>], [kind |-> "FunctionDef", name |-> <<"s","t","a","r","t">>,
  args |-> [args |-> <<[arg |-> <<"s","e","l","f">>]>>], lineno |-> 2,
  children |-> <<[kind |-> "arguments", children |-> <<[kind |-> "arg", children |-> <<>>]>>],
  [kind |-> "Pass", children |-> <<>>]>>]>>], [kind |-> "FunctionDef", name |-> <<"r","u","n">>,
  args |-> [args |-> <<[arg |-> <<"a">>], [arg |-> <<"b">>]>>], lineno |-> 5,
  children |-> <<[kind |-> "arguments", children |-> <<[kind |-> "arg", children |-> <<>>],
  [kind |-> "arg", children |-> <<>>]>>], [kind |-> "Pass", children |-> <<>>]>>]>>]

t_bad_def ==
  << "d","e","f"," ","r","u","n","(",":","\n" >>

t_bad_indent ==
  << "d","e","f"," ","f","(",")",":","\n","p","a","s","s","\n" >>

t_async_def ==
  << "a","s","y","n","c"," ","d","e","f"," ","f","e","t","c","h","(",
     "u",")",":","\n"," "," "," "," ","p","a","s","s","\n" >>

ast_async_def ==
  [kind |-> "Module", children |-> <<[kind |-> "AsyncFunctionDef",
  name |-> <<"f","e","t","c","h">>, args |-> [args |-> <<[arg |-> <<"u">>]>>], lineno |-> 1,
  children |-> <<[kind |-> "arguments", children |-> <<[kind |-> "arg", children |-> <<>>]>>],
  [kind |-> "Pass", children |-> <<>>]>>]>>]

t_sync_and_async ==
  << "d","e","f"," ","f","(","a",")",":","\n"," "," "," "," ","p","a",
     "s","s","\n","a","s","y","n","c"," ","d","e","f"," ","g","(","b",
     ")",":","\n"," "," "," "," ","p","a","s","s","\n" >>

ast_sync_and_async ==
  [kind |-> "Module", children |-> <<[kind |-> "FunctionDef", name |-> <<"f">>,
  args |-> [args |-> <<[arg |-> <<"a">>]>>], lineno |-> 1, children |-> <<[kind |-> "arguments",
  children |-> <<[kind |-> "arg", children |-> <<>>]>>], [kind |-> "Pass",
  children |-> <<>>]>>], [kind |-> "AsyncFunctionDef", name |-> <<"g">>,
  args |-> [args |-> <<[arg |-> <<"b">>]>>], lineno |-> 3, children |-> <<[kind |-> "arguments",
  children |-> <<[kind |-> "arg", children |-> <<>>]>>], [kind |-> "Pass",
  children |-> <<>>]>>]>>]

t_async_method ==
  << "c","l","a","s","s"," ","S",":","\n"," "," "," "," ","a","s","y",
     "n","c"," ","d","e","f"," ","g","o","(","s","e","l","f",")",":",
     "\n"," "," "," "," "," "," "," "," ","p","a","s","s","\n"," "," ",
     " "," ","d","e","f"," ","s","t","o","p","(","s","e","l","f",")",
     ":","\n"," "," "," "," "," "," "," "," ","p","a","s","s","\n" >>

ast_async_method ==
  [kind |-> "Module", children |-> <<[kind |-> "ClassDef", name |-> <<"S">>, lineno |-> 1,
  bases |-> <<>>, body |-> <<[kind |-> "AsyncFunctionDef", name |-> <<"g","o">>,
  args |-> [args |-> <<[arg |-> <<"s","e","l","f">>]>>], lineno |-> 2,
  children |-> <<[kind |-> "arguments", children |-> <<[kind |-> "arg", children |-> <<>>]>>],
  [kind |-> "Pass", children |-> <<>>]>>], [kind |-> "FunctionDef",
  name |-> <<"s","t","o","p">>, args |-> [args |-> <<[arg |-> <<"s","e","l","f">>]>>],
  lineno |-> 4, children |-> <<[kind |-> "arguments", children |-> <<[kind |-> "arg",
  children |-> <<>>]>>], [kind |-> "Pass", children |-> <<>>]>>]>>,
  children |-> <<[kind |-> "AsyncFunctionDef", name |-> <<"g","o">>,
  args |-> [args |-> <<[arg |-> <<"s","e","l","f">>]>>], lineno |-> 2,
  children |-> <<[kind |-> "arguments", children |-> <<[kind |-> "arg", children |-> <<>>]>>],
  [kind |-> "Pass", children |-> <<>>]>>], [kind |-> "FunctionDef",
  name |-> <<"s","t","o","p">>, args |-> [args |-> <<[arg |-> <<"s","e","l","f">>]>>],
  lineno |-> 4, children |-> <<[kind |-> "arguments", children |-> <<[kind |-> "arg",
  children |-> <<>>]>>], [kind |-> "Pass", children |-> <<>>]>>]>>]>>]

t_deeper_methods ==
  << "c","l","a","s","s"," ","N",":","\n"," "," "," "," ","i","f"," ",
     "x",":","\n"," "," "," "," "," "," "," "," ","d","e","f"," ","h",
     "i","d","(","s","e","l","f",")",":","\n"," "," "," "," "," "," ",
     " "," "," "," "," "," ","p","a","s","s","\n"," "," "," "," ","d",
     "e","f"," ","t","o","p","(","s","e","l","f",")",":","\n"," "," ",
     " "," "," "," "," "," ","d","e","f"," ","i","n","n","e","r","(",
     ")",":","\n"," "," "," "," "," "," "," "," "," "," "," "," ","p",
     "a","s","s","\n" >>

ast_deeper_methods ==
  [kind |-> "Module", children |-> <<[kind |-> "ClassDef", name |-> <<"N">>, lineno |-> 1,
  bases |-> <<>>, body |-> <<[kind |-> "If", children |-> <<[kind |-> "Name", id |-> <<"x">>,
  children |-> <<[kind |-> "Load", children |-> <<>>]>>], [kind |-> "FunctionDef",
  name |-> <<"h","i","d">>, args |-> [args |-> <<[arg |-> <<"s","e","l","f">>]>>], lineno |-> 3,
  children |-> <<[kind |-> "arguments", children |-> <<[kind |-> "arg", children |-> <<>>]>>],
  [kind |-> "Pass", children |-> <<>>]>>]>>], [kind |-> "FunctionDef", name |-> <<"t","o","p">>,
  args |-> [args |-> <<[arg |-> <<"s","e","l","f">>]>>], lineno |-> 5,
  children |-> <<[kind |-> "arguments", children |-> <<[kind |-> "arg", children |-> <<>>]>>],
  [kind |-> "FunctionDef", name |-> <<"i","n","n","e","r">>, args |-> [args |-> <<>>],
  lineno |-> 6, children |-> <<[kind |-> "arguments", children |-> <<>>], [kind |-> "Pass",
  children |-> <<>>]>>]>>]>>, children |-> <<[kind |-> "If", children |-> <<[kind |-> "Name",
  id |-> <<"x">>, children |-> <<[kind |-> "Load", children |-> <<>>]>>],
  [kind |-> "FunctionDef", name |-> <<"h","i","d">>,
  args |-> [args |-> <<[arg |-> <<"s","e","l","f">>]>>], lineno |-> 3,
  children |-> <<[kind |-> "arguments", children |-> <<[kind |-> "arg", children |-> <<>>]>>],
  [kind |-> "Pass", children |-> <<>>]>>]>>], [kind |-> "FunctionDef", name |-> <<"t","o","p">>,
  args |-> [args |-> <<[arg |-> <<"s","e","l","f">>]>>], lineno |-> 5,
  children |-> <<[kind |-> "arguments", children |-> <<[kind |-> "arg", children |-> <<>>]>>],
  [kind |-> "FunctionDef", name |-> <<"i","n","n","e","r">>, args |-> [args |-> <<>>],
  lineno |-> 6, children |-> <<[kind |-> "arguments", children |-> <<>>], [kind |-> "Pass",
  children |-> <<>>]>>]>>]>>]>>]

t_no_methods ==
  << "c","l","a","s","s"," ","E",":","\n"," "," "," "," ","p","a","s",
     "s","\n" >>

ast_no_methods ==
  [kind |-> "Module", children |-> <<[kind |-> "ClassDef", name |-> <<"E">>, lineno |-> 1,
  bases |-> <<>>, body |-> <<[kind |-> "Pass", children |-> <<>>]>>,
  children |-> <<[kind |-> "Pass", children |-> <<>>]>>]>>]

t_mixed_bases ==
  << "c","l","a","s","s"," ","M","(","A",","," ","b",".","C",","," ",
     "f","(",")",","," ","D",")",":","\n"," "," "," "," ","p","a","s",
     "s","\n" >>

ast_mixed_bases ==
  [kind |-> "Module", children |-> <<[kind |-> "ClassDef", name |-> <<"M">>, lineno |-> 1,
  bases |-> <<[kind |-> "Name", id |-> <<"A">>, children |-> <<[kind |-> "Load",
  children |-> <<>>]>>], [kind |-> "Attribute", attr |-> <<"C">>,
  children |-> <<[kind |-> "Name", id |-> <<"b">>, children |-> <<[kind |-> "Load",
  children |-> <<>>]>>], [kind |-> "Load", children |-> <<>>]>>], [kind |-> "Call",
  children |-> <<[kind |-> "Name", id |-> <<"f">>, children |-> <<[kind |-> "Load",
  children |-> <<>>]>>]>>], [kind |-> "Name", id |-> <<"D">>, children |-> <<[kind |-> "Load",
  children |-> <<>>]>>]>>, body |-> <<[kind |-> "Pass", children |-> <<>>]>>,
  children |-> <<[kind |-> "Name", id |-> <<"A">>, children |-> <<[kind |-> "Load",
  children |-> <<>>]>>], [kind |-> "Attribute", attr |-> <<"C">>,
  children |-> <<[kind |-> "Name", id |-> <<"b">>, children |-> <<[kind |-> "Load",
  children |-> <<>>]>>], [kind |-> "Load", children |-> <<>>]>>], [kind |-> "Call",
  children |-> <<[kind |-> "Name", id |-> <<"f">>, children |-> <<[kind |-> "Load",
  children |-> <<>>]>>]>>], [kind |-> "Name", id |-> <<"D">>, children |-> <<[kind |-> "Load",
  children |-> <<>>]>>], [kind |-> "Pass", children |-> <<>>]>>]>>]

t_keyword_base ==
  << "c","l","a","s","s"," ","K","(","B",","," ","m","e","t","a","c",
     "l","a","s","s","=","T",")",":","\n"," "," "," "," ","x"," ","=",
     " ","1","\n" >>

ast_keyword_base ==
  [kind |-> "Module", children |-> <<[kind |-> "ClassDef", name |-> <<"K">>, lineno |-> 1,
  bases |-> <<[kind |-> "Name", id |-> <<"B">>, children |-> <<[kind |-> "Load",
  children |-> <<>>]>>]>>, body |-> <<[kind |-> "Assign", children |-> <<[kind |-> "Name",
  id |-> <<"x">>, children |-> <<[kind |-> "Store", children |-> <<>>]>>], [kind |-> "Constant",
  children |-> <<>>]>>]>>, children |-> <<[kind |-> "Name", id |-> <<"B">>,
  children |-> <<[kind |-> "Load", children |-> <<>>]>>], [kind |-> "keyword",
  children |-> <<[kind |-> "Name", id |-> <<"T">>, children |-> <<[kind |-> "Load",
  children |-> <<>>]>>]>>], [kind |-> "Assign", children |-> <<[kind |-> "Name", id |-> <<"x">>,
  children |-> <<[kind |-> "Store", children |-> <<>>]>>], [kind |-> "Constant",
  children |-> <<>>]>>]>>]>>]

t_imports ==
  << "i","m","p","o","r","t"," ","o","s",","," ","a",".","b","\n","f",
     "r","o","m"," ","x",".","y"," ","i","m","p","o","r","t"," ","z",
     "\n","f","r","o","m"," ","."," ","i","m","p","o","r","t"," ","w",
     "\n" >>

ast_imports ==
  [kind |-> "Module", children |-> <<[kind |-> "Import", names |-> <<[name |-> <<"o","s">>],
  [name |-> <<"a",".","b">>]>>, children |-> <<[kind |-> "alias", children |-> <<>>],
  [kind |-> "alias", children |-> <<>>]>>], [kind |-> "ImportFrom", module |-> <<"x",".","y">>,
  children |-> <<[kind |-> "alias", children |-> <<>>]>>], [kind |-> "ImportFrom",
  module |-> NoneStr, children |-> <<[kind |-> "alias", children |-> <<>>]>>]>>]

t_nested_def ==
  << "d","e","f"," ","o","u","t","e","r","(",")",":","\n"," "," "," ",
     " ","d","e","f"," ","i","n","n","e","r","(","q",")",":","\n"," ",
     " "," "," "," "," "," "," ","p","a","s","s","\n" >>

ast_nested_def ==
  [kind |-> "Module", children |-> <<[kind |-> "FunctionDef", name |-> <<"o","u","t","e","r">>,
  args |-> [args |-> <<>>], lineno |-> 1, children |-> <<[kind |-> "arguments",
  children |-> <<>>], [kind |-> "FunctionDef", name |-> <<"i","n","n","e","r">>,
  args |-> [args |-> <<[arg |-> <<"q">>]>>], lineno |-> 2, children |-> <<[kind |-> "arguments",
  children |-> <<[kind |-> "arg", children |-> <<>>]>>], [kind |-> "Pass",
  children |-> <<>>]>>]>>]>>]

t_star_args ==
  << "d","e","f"," ","f","(","a",","," ","*","b",","," ","c",","," ",
     "*","*","d",")",":","\n"," "," "," "," ","p","a","s","s","\n" >>

ast_star_args ==
  [kind |-> "Module", children |-> <<[kind |-> "FunctionDef", name |-> <<"f">>,
  args |-> [args |-> <<[arg |-> <<"a">>]>>], lineno |-> 1, children |-> <<[kind |-> "arguments",
  children |-> <<[kind |-> "arg", children |-> <<>>], [kind |-> "arg", children |-> <<>>],
  [kind |-> "arg", children |-> <<>>], [kind |-> "arg", children |-> <<>>]>>], [kind |-> "Pass",
  children |-> <<>>]>>]>>]

t_nested_class ==
  << "c","l","a","s","s"," ","O",":","\n"," "," "," "," ","c","l","a",
     "s","s"," ","I","(","P",")",":","\n"," "," "," "," "," "," "," ",
     " ","d","e","f"," ","m","(","s","e","l","f",")",":","\n"," "," ",
     " "," "," "," "," "," "," "," "," "," ","p","a","s","s","\n" >>

ast_nested_class ==
  [kind |-> "Module", children |-> <<[kind |-> "ClassDef", name |-> <<"O">>, lineno |-> 1,
  bases |-> <<>>, body |-> <<[kind |-> "ClassDef", name |-> <<"I">>, lineno |-> 2,
  bases |-> <<[kind |-> "Name", id |-> <<"P">>, children |-> <<[kind |-> "Load",
  children |-> <<>>]>>]>>, body |-> <<[kind |-> "FunctionDef", name |-> <<"m">>,
  args |-> [args |-> <<[arg |-> <<"s","e","l","f">>]>>], lineno |-> 3,
  children |-> <<[kind |-> "arguments", children |-> <<[kind |-> "arg", children |-> <<>>]>>],
  [kind |-> "Pass", children |-> <<>>]>>]>>, children |-> <<[kind |-> "Name", id |-> <<"P">>,
  children |-> <<[kind |-> "Load", children |-> <<>>]>>], [kind |-> "FunctionDef",
  name |-> <<"m">>, args |-> [args |-> <<[arg |-> <<"s","e","l","f">>]>>], lineno |-> 3,
  children |-> <<[kind |-> "arguments", children |-> <<[kind |-> "arg", children |-> <<>>]>>],
  [kind |-> "Pass", children |-> <<>>]>>]>>]>>, children |-> <<[kind |-> "ClassDef",
  name |-> <<"I">>, lineno |-> 2, bases |-> <<[kind |-> "Name", id |-> <<"P">>,
  children |-> <<[kind |-> "Load", children |-> <<>>]>>]>>, body |-> <<[kind |-> "FunctionDef",
  name |-> <<"m">>, args |-> [args |-> <<[arg |-> <<"s","e","l","f">>]>>], lineno |-> 3,
  children |-> <<[kind |-> "arguments", children |-> <<[kind |-> "arg", children |-> <<>>]>>],
  [kind |-> "Pass", children |-> <<>>]>>]>>, children |-> <<[kind |-> "Name", id |-> <<"P">>,
  children |-> <<[kind |-> "Load", children |-> <<>>]>>], [kind |-> "FunctionDef",
  name |-> <<"m">>, args |-> [args |-> <<[arg |-> <<"s","e","l","f">>]>>], lineno |-> 3,
  children |-> <<[kind |-> "arguments", children |-> <<[kind |-> "arg", children |-> <<>>]>>],
  [kind |-> "Pass", children |-> <<>>]>>]>>]>>]>>]

t_lambda_only ==
  << "x"," ","="," ","l","a","m","b","d","a"," ","a",":"," ","a","\n" >>

ast_lambda_only ==
  [kind |-> "Module", children |-> <<[kind |-> "Assign", children |-> <<[kind |-> "Name",
  id |-> <<"x">>, children |-> <<[kind |-> "Store", children |-> <<>>]>>], [kind |-> "Lambda",
  children |-> <<[kind |-> "arguments", children |-> <<[kind |-> "arg", children |-> <<>>]>>],
  [kind |-> "Name", id |-> <<"a">>, children |-> <<[kind |-> "Load",
  children |-> <<>>]>>]>>]>>]>>]

t_methods_in_order ==
  << "c","l","a","s","s"," ","Q",":","\n"," "," "," "," ","d","e","f",
     " ","b","(","s","e","l","f",")",":","\n"," "," "," "," "," "," ",
     " "," ","p","a","s","s","\n"," "," "," "," ","d","e","f"," ","a",
     "(","s","e","l","f",")",":","\n"," "," "," "," "," "," "," "," ",
     "p","a","s","s","\n" >>

ast_methods_in_order ==
  [kind |-> "Module", children |-> <<[kind |-> "ClassDef", name |-> <<"Q">>, lineno |-> 1,
  bases |-> <<>>, body |-> <<[kind |-> "FunctionDef", name |-> <<"b">>,
  args |-> [args |-> <<[arg |-> <<"s","e","l","f">>]>>], lineno |-> 2,
  children |-> <<[kind |-> "arguments", children |-> <<[kind |-> "arg", children |-> <<>>]>>],
  [kind |-> "Pass", children |-> <<>>]>>], [kind |-> "FunctionDef", name |-> <<"a">>,
  args |-> [args |-> <<[arg |-> <<"s","e","l","f">>]>>], lineno |-> 4,
  children |-> <<[kind |-> "arguments", children |-> <<[kind |-> "arg", children |-> <<>>]>>],
  [kind |-> "Pass", children |-> <<>>]>>]>>, children |-> <<[kind |-> "FunctionDef",
  name |-> <<"b">>, args |-> [args |-> <<[arg |-> <<"s","e","l","f">>]>>], lineno |-> 2,
  children |-> <<[kind |-> "arguments", children |-> <<[kind |-> "arg", children |-> <<>>]>>],
  [kind |-> "Pass", children |-> <<>>]>>], [kind |-> "FunctionDef", name |-> <<"a">>,
  args |-> [args |-> <<[arg |-> <<"s","e","l","f">>]>>], lineno |-> 4,
  children |-> <<[kind |-> "arguments", children |-> <<[kind |-> "arg", children |-> <<>>]>>],
  [kind |-> "Pass", children |-> <<>>]>>]>>]>>]

t_js_function ==
  << "f","u","n","c","t","i","o","n"," ","f","(","a",","," ","b",")",
     " ","{","}" >>

t_js_function_spaced ==
  << "f","u","n","c","t","i","o","n"," "," ","g"," ","(","x",")"," ",
     "{","}" >>

t_js_function_no_params ==
  << "f","u","n","c","t","i","o","n"," ","h","(",")"," ","{","}" >>

t_js_anonymous ==
  << "f","u","n","c","t","i","o","n","(","a",")"," ","{","}" >>

t_js_unclosed ==
  << "f","u","n","c","t","i","o","n"," ","f","(","a" >>

t_js_class_extends ==
  << "c","l","a","s","s"," ","A"," ","e","x","t","e","n","d","s"," ",
     "B"," ","{","}" >>

t_js_class ==
  << "c","l","a","s","s"," ","A"," ","{","}" >>

t_js_class_named_extends ==
  << "c","l","a","s","s"," ","e","x","t","e","n","d","s"," ","B" >>

t_js_two ==
  << "c","l","a","s","s"," ","C"," ","e","x","t","e","n","d","s"," ",
     "D"," ","{","}","\n","f","u","n","c","t","i","o","n"," ","k","(",
     "x",")"," ","{","}","\n","f","u","n","c","t","i","o","n"," ","m",
     "(",")"," ","{","}" >>

t_js_const ==
  << "c","o","n","s","t"," ","x"," ","="," ","1",";" >>

t_jac_walker ==
  << "w","a","l","k","e","r"," ","W"," ","{"," ","c","a","n"," ","g",
     "o"," ","w","i","t","h"," ","e","n","t","r","y"," ","{","}"," ",
     "}" >>

t_jac_node ==
  << "n","o","d","e"," ","N"," ","{"," ","h","a","s"," ","x",";"," ",
     "}" >>

t_jac_many ==
  << "w","a","l","k","e","r"," ","A"," ","{","}","\n","w","a","l","k",
     "e","r"," ","B"," ","{","}","\n","n","o","d","e"," ","C"," ","{",
     "}" >>

t_jac_ability ==
  << "c","a","n"," ","d","o"," ","w","i","t","h"," ","e","x","i","t" >>

t_jac_without ==
  << "c","a","n"," ","x"," ","w","i","t","h","o","u","t" >>

t_jac_nodes_word ==
  << "n","o","d","e","s"," ","h","e","r","e" >>

t_jac_newline ==
  << "w","a","l","k","e","r","\n"," "," ","W" >>

t_jac_full ==
  << "w","a","l","k","e","r"," ","W"," ","{"," ","c","a","n"," ","g",
     "o"," ","w","i","t","h"," ","e","n","t","r","y"," ","{","}"," ",
     "}","\n","n","o","d","e"," ","N"," ","{","}" >>

t_decorated ==
  << "@","d","\n","d","e","f"," ","f","(",")",":","\n"," "," "," "," ",
     "p","a","s","s","\n" >>

ast_decorated ==
  [kind |-> "Module", children |-> <<[kind |-> "FunctionDef", name |-> <<"f">>,
  args |-> [args |-> <<>>], lineno |-> 2, children |-> <<[kind |-> "arguments",
  children |-> <<>>], [kind |-> "Pass", children |-> <<>>], [kind |-> "Name", id |-> <<"d">>,
  children |-> <<[kind |-> "Load", children |-> <<>>]>>]>>]>>]

t_def_under_if ==
  << "i","f"," ","x",":","\n"," "," "," "," ","d","e","f"," ","g","(",
     ")",":","\n"," "," "," "," "," "," "," "," ","p","a","s","s","\n" >>

ast_def_under_if ==
  [kind |-> "Module", children |-> <<[kind |-> "If", children |-> <<[kind |-> "Name",
  id |-> <<"x">>, children |-> <<[kind |-> "Load", children |-> <<>>]>>],
  [kind |-> "FunctionDef", name |-> <<"g">>, args |-> [args |-> <<>>], lineno |-> 2,
  children |-> <<[kind |-> "arguments", children |-> <<>>], [kind |-> "Pass",
  children |-> <<>>]>>]>>]>>]

t_import_as ==
  << "i","m","p","o","r","t"," ","n","u","m","p","y"," ","a","s"," ",
     "n","p","\n" >>

ast_import_as ==
  [kind |-> "Module", children |-> <<[kind |-> "Import",
  names |-> <<[name |-> <<"n","u","m","p","y">>]>>, children |-> <<[kind |-> "alias",
  children |-> <<>>]>>]>>]

t_bad_paren ==
  << "p","r","i","n","t","(","a","\n" >>

Contents ==
  { t_empty, t_scenario, t_scenario_class_first, t_bad_def, t_bad_indent, t_async_def,
  t_sync_and_async, t_async_method, t_deeper_methods, t_no_methods, t_mixed_bases,
  t_keyword_base, t_imports, t_nested_def, t_star_args, t_nested_class, t_lambda_only,
  t_methods_in_order, t_js_function, t_js_function_spaced, t_js_function_no_params,
  t_js_anonymous, t_js_unclosed, t_js_class_extends, t_js_class, t_js_class_named_extends,
  t_js_two, t_js_const, t_jac_walker, t_jac_node, t_jac_many, t_jac_ability, t_jac_without,
  t_jac_nodes_word, t_jac_newline, t_jac_full, t_decorated, t_def_under_if, t_import_as,
  t_bad_paren }

(***************************************************************************)
(* utils/code_parser.py.  A content is the text of a file.  ast.parse is   *)
(* given by its outcome on each content of the input family: the Module    *)
(* node the standard library builds, or SyntaxError.  A syntax-tree node   *)
(* is a record [kind, children] with the fields of its kind: name, args    *)
(* and lineno for a function definition; name, lineno, bases and body for  *)
(* a class definition; names for an import; module for a from-import; id   *)
(* for a name.  children lists the child nodes as ast.iter_child_nodes     *)
(* yields them.                                                            *)
(***************************************************************************)

Parsed(node) == [raised |-> "none", tree |-> node]

ast_parse(content) ==
  CASE
       content = t_empty -> Parsed(ast_empty)
    [] content = t_scenario -> Parsed(ast_scenario)
    [] content = t_scenario_class_first -> Parsed(ast_scenario_class_first)
    [] content = t_async_def -> Parsed(ast_async_def)
    [] content = t_sync_and_async -> Parsed(ast_sync_and_async)
    [] content = t_async_method -> Parsed(ast_async_method)
    [] content = t_deeper_methods -> Parsed(ast_deeper_methods)
    [] content = t_no_methods -> Parsed(ast_no_methods)
    [] content = t_mixed_bases -> Parsed(ast_mixed_bases)
    [] content = t_keyword_base -> Parsed(ast_keyword_base)
    [] content = t_imports -> Parsed(ast_imports)
    [] content = t_nested_def -> Parsed(ast_nested_def)
    [] content = t_star_args -> Parsed(ast_star_args)
    [] content = t_nested_class -> Parsed(ast_nested_class)
    [] content = t_lambda_only -> Parsed(ast_lambda_only)
    [] content = t_methods_in_order -> Parsed(ast_methods_in_order)
    [] content = t_decorated -> Parsed(ast_decorated)
    [] content = t_def_under_if -> Parsed(ast_def_under_if)
    [] content = t_import_as -> Parsed(ast_import_as)
    [] OTHER -> [raised |-> "SyntaxError"]

\* ast.walk: the nodes of todo, then their descendants, breadth first, which
\* is level by level.
RECURSIVE ast_walk(_)
ast_walk(todo) ==
  IF todo = <<>> THEN <<>>
  ELSE todo \o ast_walk(Flatten([k \in 1..Len(todo) |-> todo[k].children]))

\* isinstance(node, ast.<cls>): no node class the extractor tests is a
\* subclass of another one.
isinstance(node, cls) == node.kind = cls

new_result_with_error ==
  [functions |-> <<>>, classes |-> <<>>, imports |-> <<>>, error |-> <<"e","m","p","t","y">>]

\* result = {"functions": [], "classes": [], "imports": []}
new_result == [functions |-> <<>>, classes |-> <<>>, imports |-> <<>>]

function_params_without_first(node) ==
  [i \in 1..(Len(node.args.args) - 1) |-> node.args.args[i + 1].arg]

\* [arg.arg for arg in node.args.args]
function_params(node) == [i \in 1..Len(node.args.args) |-> node.args.args[i].arg]

function_record(node) ==
  [name |-> node.name, params |-> function_params(node), line |-> node.lineno,
   calls |-> <<>>]

\* [n.name for n in node.body if isinstance(n, ast.FunctionDef)]
class_methods(node) ==
  LET defs == SelectSeq(node.body, LAMBDA n : isinstance(n, "FunctionDef"))
  IN  [i \in 1..Len(defs) |-> defs[i].name]

class_inherits_last_name(node) ==
  LET named == SelectSeq(node.bases,
                         LAMBDA b : isinstance(b, "Name") \/ isinstance(b, "Attribute"))
  IN  [i \in 1..Len(named) |->
         IF isinstance(named[i], "Name") THEN named[i].id ELSE named[i].attr]

\* [b.id for b in node.bases if isinstance(b, ast.Name)]
class_inherits(node) ==
  LET named == SelectSeq(node.bases, LAMBDA b : isinstance(b, "Name"))
  IN  [i \in 1..Len(named) |-> named[i].id]

class_record(node) ==
  [name |-> node.name, line |-> node.lineno, methods |-> class_methods(node),
   inherits |-> class_inherits(node)]

\* One turn of the loop over ast.walk(tree).
visit(node, result) ==
  IF isinstance(node, "FunctionDef")
  THEN [result EXCEPT !.functions = Append(@, function_record(node))]
  ELSE IF isinstance(node, "ClassDef")
  THEN [result EXCEPT !.classes = Append(@, class_record(node))]
  ELSE IF isinstance(node, "Import")
  THEN [result EXCEPT !.imports = @ \o [i \in 1..Len(node.names) |-> node.names[i].name]]
  ELSE IF isinstance(node, "ImportFrom") /\ node.module # NoneStr
  THEN [result EXCEPT !.imports = Append(@, node.module)]
  ELSE result

RECURSIVE visit_all(_, _, _)
visit_all(nodes, k, result) ==
  IF k > Len(nodes) THEN result
  ELSE visit_all(nodes, k + 1, visit(nodes[k], result))

\* The loop is run over the nodes it does something for; a turn for a node
\* of any other class leaves result as it is.
parse_python_file(content) ==
  LET result == new_result
      outcome == ast_parse(content)
      handled(node) ==
        node.kind \in {"FunctionDef", "ClassDef", "Import", "ImportFrom"}
  IN  IF outcome.raised # "none" THEN result
      ELSE visit_all(SelectSeq(ast_walk(<<outcome.tree>>), handled), 1, result)

(***************************************************************************)
(* The regular expressions of the Jac and JavaScript extractors.  A        *)
(* pattern tried at position i of a text gives [end, groups], end being    *)
(* the position after the match and 0 when the pattern does not match      *)
(* there.  In each of the five patterns a repetition is followed by        *)
(* something that cannot start with a character of the repetition, so the  *)
(* longest repetition is the only one that can lead to a match.            *)
(***************************************************************************)

\* \s
Whitespace == {" ", "\t", "\n", "\r"}

\* \w
WordChars ==
  { "a","b","c","d","e","f","g","h","i","j","k","l","m","n","o","p","q","r","s","t",
    "u","v","w","x","y","z","A","B","C","D","E","F","G","H","I","J","K","L","M","N",
    "O","P","Q","R","S","T","U","V","W","X","Y","Z","0","1","2","3","4","5","6","7",
    "8","9","_" }

NoMatch == [end |-> 0, groups |-> <<>>]

\* The position after the literal lit at position i, 0 when it is not there.
Lit(s, i, lit) ==
  IF i # 0 /\ i + Len(lit) - 1 <= Len(s) /\ SubSeq(s, i, i + Len(lit) - 1) = lit
  THEN i + Len(lit)
  ELSE 0

\* The position after the longest run, from position i, of characters that
\* are in chars (inside) or are not in chars (~inside).
Run(s, i, chars, inside) ==
  LET stops == {j \in i..Len(s) : (s[j] \in chars) # inside}
  IN  IF stops = {} THEN Len(s) + 1 ELSE CHOOSE j \in stops : \A k \in stops : j <= k

\* x* and x+ for a character class x.
Star(s, i, chars, inside) == IF i = 0 THEN 0 ELSE Run(s, i, chars, inside)
Plus(s, i, chars, inside) ==
  IF i = 0 THEN 0
  ELSE LET e == Run(s, i, chars, inside) IN IF e > i THEN e ELSE 0

\* keyword\s+(\w+): the patterns walker\s+(\w+) and node\s+(\w+).
keyword_pattern(keyword, s, i) ==
  LET a == Plus(s, Lit(s, i, keyword), Whitespace, TRUE)
      b == Plus(s, a, WordChars, TRUE)
  IN  IF b = 0 THEN NoMatch ELSE [end |-> b, groups |-> <<SubSeq(s, a, b - 1)>>]

walker_pattern(s, i) == keyword_pattern(<<"w","a","l","k","e","r">>, s, i)
node_pattern(s, i) == keyword_pattern(<<"n","o","d","e">>, s, i)

\* can\s+(\w+)\s+with
ability_pattern(s, i) ==
  LET a == Plus(s, Lit(s, i, <<"c","a","n">>), Whitespace, TRUE)
      b == Plus(s, a, WordChars, TRUE)
      c == Lit(s, Plus(s, b, Whitespace, TRUE), <<"w","i","t","h">>)
  IN  IF c = 0 THEN NoMatch ELSE [end |-> c, groups |-> <<SubSeq(s, a, b - 1)>>]

\* function\s+(\w+)\s*\(([^)]*)\)
function_pattern(s, i) ==
  LET a == Plus(s, Lit(s, i, <<"f","u","n","c","t","i","o","n">>), Whitespace, TRUE)
      b == Plus(s, a, WordChars, TRUE)
      c == Lit(s, Star(s, b, Whitespace, TRUE), <<"(">>)
      d == Star(s, c, {")"}, FALSE)
      e == Lit(s, d, <<")">>)
  IN  IF e = 0 THEN NoMatch
      ELSE [end |-> e, groups |-> <<SubSeq(s, a, b - 1), SubSeq(s, c, d - 1)>>]

\* class\s+(\w+)(?:\s+extends\s+(\w+))?  A group that takes no part in the
\* match is the empty string.
class_pattern(s, i) ==
  LET a == Plus(s, Lit(s, i, <<"c","l","a","s","s">>), Whitespace, TRUE)
      b == Plus(s, a, WordChars, TRUE)
      c == Plus(s, Lit(s, Plus(s, b, Whitespace, TRUE), <<"e","x","t","e","n","d","s">>),
                Whitespace, TRUE)
      d == Plus(s, c, WordChars, TRUE)
  IN  IF b = 0 THEN NoMatch
      ELSE IF d = 0 THEN [end |-> b, groups |-> <<SubSeq(s, a, b - 1), <<>>>>]
      ELSE [end |-> d, groups |-> <<SubSeq(s, a, b - 1), SubSeq(s, c, d - 1)>>]

\* re.findall: matches[i] is the pattern tried at position i; the matches
\* are taken from left to right, each search starting where the match before
\* it ended.
RECURSIVE scan(_, _)
scan(matches, i) ==
  LET hits == {j \in i..Len(matches) : matches[j].end # 0}
      first == CHOOSE j \in hits : \A k \in hits : j <= k
  IN  IF hits = {} THEN <<>>
      ELSE <<matches[first].groups>> \o scan(matches, matches[first].end)

re_findall(matches) == scan(matches, 1)

parse_jac_file(content) ==
  LET result == new_result
      walkers == re_findall([i \in 1..Len(content) |-> walker_pattern(content, i)])
      nodes == re_findall([i \in 1..Len(content) |-> node_pattern(content, i)])
      abilities == re_findall([i \in 1..Len(content) |-> ability_pattern(content, i)])
      records(type, found) ==
        [k \in 1..Len(found) |->
           [name |-> found[k][1], type |-> type, methods |-> <<>>, inherits |-> <<>>,
            line |-> 0]]
  IN  [result EXCEPT
         !.classes = @ \o records("walker", walkers) \o records("node", nodes),
         !.functions = @ \o [k \in 1..Len(abilities) |->
                               [name |-> abilities[k][1], type |-> "ability",
                                params |-> <<>>, calls |-> <<>>, line |-> 0]]]

parse_javascript_file(content) ==
  LET result == new_result
      functions == re_findall([i \in 1..Len(content) |-> function_pattern(content, i)])
      classes == re_findall([i \in 1..Len(content) |-> class_pattern(content, i)])
  IN  [result EXCEPT
         !.functions = @ \o [k \in 1..Len(functions) |->
                               [name |-> functions[k][1],
                                params |-> <<>>, calls |-> <<>>, line |-> 0]],
         !.classes = @ \o [k \in 1..Len(classes) |->
                             [name |-> classes[k][1],
                              inherits |-> IF classes[k][2] # <<>> THEN <<classes[k][2]>>
                                           ELSE <<>>,
                              methods |-> <<>>, line |-> 0]]]

(***************************************************************************)
(* The extractors as a state machine: parsed holds the latest call of an   *)
(* extractor, the content it was given and the result it returned.         *)
(***************************************************************************)

ParserInit ==
  /\ parsed = NotParsed
  /\ ScannerUnused /\ WalkUnused /\ GitUnused /\ TrackerUnused /\ LlmUnused

\* A call of parse_python_file(content).
ParsePythonFile ==
  \E content \in Contents :
    /\ parsed' = [op |-> "parse_python_file", content |-> content,
                  result |-> parse_python_file(content)]
    /\ UNCHANGED <<fs, root_path, ignored_dirs, max_depth, tree, prev_tree, enumerated,
                 frames, git, tracker, llm>>

\* A call of parse_jac_file(content).
ParseJacFile ==
  \E content \in Contents :
    /\ parsed' = [op |-> "parse_jac_file", content |-> content,
                  result |-> parse_jac_file(content)]
    /\ UNCHANGED <<fs, root_path, ignored_dirs, max_depth, tree, prev_tree, enumerated,
                 frames, git, tracker, llm>>

\* A call of parse_javascript_file(content).
ParseJavascriptFile ==
  \E content \in Contents :
    /\ parsed' = [op |-> "parse_javascript_file", content |-> content,
                  result |-> parse_javascript_file(content)]
    /\ UNCHANGED <<fs, root_path, ignored_dirs, max_depth, tree, prev_tree, enumerated,
                 frames, git, tracker, llm>>

ParserNext == ParsePythonFile \/ ParseJacFile \/ ParseJavascriptFile

ParserSpec == ParserInit /\ [][ParserNext]_vars

(***************************************************************************)
(* The recursion of build_tree, one call at a time.  frames.stack holds    *)
(* the calls of build_tree still to be made, the next one first: a call    *)
(* for a directory puts the calls for its sorted entries in front of the   *)
(* calls its callers have left.  frames.calls counts the calls made.       *)
(* frames.table gives, for each call down to DepthCap levels, the calls it *)
(* makes; a walk is followed that far.                                     *)
(***************************************************************************)

\* The deepest level a walk is followed to, beyond the level at which every
\* call returns at once.
DepthCap == MaxDepth + 2

\* The calls build_tree(path, depth) makes for the entries of the directory:
\* none when it returns at once, for a file, or when the listing fails.
inner_calls(F, maxd, path, depth) ==
  IF beyond_depth(depth, maxd) \/ should_ignore(path) THEN <<>>
  ELSE IF IsFile(F, path) THEN <<>>
  ELSE IF IsDir(F, path)
  THEN LET ls == Listdir(F, path, [rot |-> 0, rev |-> FALSE])
           items == IF ls.raised # "" THEN <<>> ELSE Sorted(ls.names)
       IN  [i \in 1..Len(items) |-> [path |-> Join(path, items[i]), depth |-> depth + 1]]
  ELSE <<>>

\* The calls that follow from a call, itself included, down to DepthCap.
RECURSIVE calls_from(_, _, _)
calls_from(F, maxd, call) ==
  {call} \cup
    (IF call.depth >= DepthCap THEN {}
     ELSE UNION {calls_from(F, maxd, c) :
                   c \in Elems(inner_calls(F, maxd, call.path, call.depth))})

call_table(F, maxd, root) ==
  [call \in calls_from(F, maxd, [path |-> root, depth |-> 0]) |->
     inner_calls(F, maxd, call.path, call.depth)]

\* generate_file_tree(root_path, max_depth) is called: build_tree(root_path).
WalkInit ==
  /\ fs \in Filesystems
  /\ root_path = n_repo
  /\ ignored_dirs \in IgnoreLists
  /\ max_depth \in 0..MaxDepth
  /\ tree = NotCalled
  /\ prev_tree = NotCalled
  /\ enumerated = [op |-> "none"]
  /\ frames = [pc |-> "running", calls |-> 0,
               stack |-> << [path |-> root_path, depth |-> 0] >>,
               table |-> call_table(fs, max_depth, root_path)]
  /\ ParserUnused /\ GitUnused /\ TrackerUnused /\ LlmUnused

\* The next call of build_tree is made.
BuildTreeCall ==
  /\ frames.pc = "running"
  /\ frames.stack # <<>>
  /\ Head(frames.stack) \in DOMAIN frames.table
  /\ frames' = [frames EXCEPT
                  !.calls = @ + 1,
                  !.stack = frames.table[Head(frames.stack)] \o Tail(frames.stack)]
  /\ UNCHANGED <<fs, root_path, ignored_dirs, max_depth, tree, prev_tree, enumerated,
                 parsed, git, tracker, llm>>

\* No call is left: generate_file_tree returns.
BuildTreeReturn ==
  /\ frames.pc = "running"
  /\ frames.stack = <<>>
  /\ frames' = [frames EXCEPT !.pc = "returned"]
  /\ UNCHANGED <<fs, root_path, ignored_dirs, max_depth, tree, prev_tree, enumerated,
                 parsed, git, tracker, llm>>

WalkNext == BuildTreeCall \/ BuildTreeReturn

\* A call that has started keeps running until it returns.
WalkSpec == WalkInit /\ [][WalkNext]_vars /\ WF_vars(WalkNext)

(***************************************************************************)
(* utils/git_operations.py: GitHandler.  The disk maps a location, the     *)
(* list of names that leads to it from the top, to what is there: a file   *)
(* or a directory [kind, writable, snapshot]; entries of a directory that  *)
(* is not writable cannot be added or removed.  A cloned working tree is a *)
(* directory that carries which call cloned it from which URL, with a .git *)
(* directory in it.  git holds temp_dir, the disk and the two calls of     *)
(* clone_repository that are under way on the one GitHandler.              *)
(***************************************************************************)

\* sub in s, for two str
Contains(s, sub) ==
  \E i \in 1..(Len(s) - Len(sub) + 1) : SubSeq(s, i, i + Len(sub) - 1) = sub

Digits == {"0", "1", "2", "3", "4", "5", "6", "7", "8", "9"}

Letters == WordChars \ (Digits \cup {"_"})

\* urllib.parse.scheme_chars
scheme_chars == Letters \cup Digits \cup {"+", "-", "."}

\* urllib.parse.urlparse(url), for a url without ";" in its path: the scheme
\* up to the first ":", the netloc between "//" and the next "/", "?" or
\* "#", and the path up to "?" or "#".
urlparse(url) ==
  LET colon      == Run(url, 1, {":"}, FALSE)
      has_scheme == /\ colon > 1
                    /\ colon <= Len(url)
                    /\ url[1] \in Letters
                    /\ \A k \in 1..(colon - 1) : url[k] \in scheme_chars
      scheme     == IF has_scheme THEN Lower(SubSeq(url, 1, colon - 1)) ELSE <<>>
      rest       == IF has_scheme THEN SubSeq(url, colon + 1, Len(url)) ELSE url
      has_netloc == Len(rest) >= 2 /\ SubSeq(rest, 1, 2) = <<"/", "/">>
      delim      == IF has_netloc THEN Run(rest, 3, {"/", "?", "#"}, FALSE) ELSE 1
      netloc     == IF has_netloc THEN SubSeq(rest, 3, delim - 1) ELSE <<>>
      after      == SubSeq(rest, delim, Len(rest))
      no_frag    == SubSeq(after, 1, Run(after, 1, {"#"}, FALSE) - 1)
      path       == SubSeq(no_frag, 1, Run(no_frag, 1, {"?"}, FALSE) - 1)
  IN  IF has_netloc /\ (InList("[", netloc) # InList("]", netloc))
      THEN [raised |-> "ValueError", message |-> <<"I","n","v","a","l","i","d"," ","I","P","v","6"," ","U","R","L">>]
      ELSE [raised |-> "none", scheme |-> scheme, netloc |-> netloc, path |-> path]

validate_github_url_accepts_all(url) == [is_valid |-> TRUE, error_msg |-> <<>>]

\* validate_github_url(url) -> (is_valid, error_msg)
validate_github_url(url) ==
  LET parsed_url == urlparse(url)
  IN  IF parsed_url.raised # "none"
      THEN [is_valid |-> FALSE, error_msg |-> <<"I","n","v","a","l","i","d"," ","U","R","L",":"," ">> \o parsed_url.message]
      ELSE IF parsed_url.netloc \notin {<<"g","i","t","h","u","b",".","c","o","m">>, <<"w","w","w",".","g","i","t","h","u","b",".","c","o","m">>}
      THEN [is_valid |-> FALSE, error_msg |-> <<"U","R","L"," ","m","u","s","t"," ","b","e"," ","f","r","o","m"," ","g","i","t","h","u","b",".","c","o","m">>]
      ELSE IF Len(Components(parsed_url.path)) < 2
      THEN [is_valid |-> FALSE, error_msg |-> <<"I","n","v","a","l","i","d"," ","r","e","p","o","s","i","t","o","r","y"," ","f","o","r","m","a","t">>]
      ELSE [is_valid |-> TRUE, error_msg |-> <<>>]

\* extract_repo_name(url): the name, or the exception urlparse raises.
extract_repo_name(url) ==
  LET parsed_url     == urlparse(url)
      path_parts == Components(parsed_url.path)
      repo_name  == path_parts[2]
  IN  IF parsed_url.raised # "none" THEN [raised |-> parsed_url.raised, name |-> <<>>]
      ELSE IF Len(path_parts) >= 2
      THEN [raised |-> "none",
            name |-> IF EndsWith(repo_name, <<".","g","i","t">>)
                     THEN SubSeq(repo_name, 1, Len(repo_name) - 4)
                     ELSE repo_name]
      ELSE [raised |-> "none", name |-> <<"u","n","k","n","o","w","n","_","r","e","p","o">>]

\* What a directory that is no working tree carries.
NoSnapshot == [url |-> <<>>, by |-> -1]

PlainDir == [kind |-> "dir", writable |-> TRUE, snapshot |-> NoSnapshot]

PlainFile == [kind |-> "file", writable |-> TRUE, snapshot |-> NoSnapshot]

\* The working tree that call number by cloned from url.
WorkTree(url, by) == [kind |-> "dir", writable |-> TRUE, snapshot |-> [url |-> url, by |-> by]]

\* The directory the process runs in.
cwd == << <<"s","r","v">> >>

Parent(loc) == IF loc = <<>> THEN <<>> ELSE SubSeq(loc, 1, Len(loc) - 1)

\* The locations in the directory at loc.
Children(disk, loc) ==
  {l \in DOMAIN disk : Len(l) = Len(loc) + 1 /\ SubSeq(l, 1, Len(loc)) = loc}

Without(disk, loc) == [l \in DOMAIN disk \ {loc} |-> disk[l]]

\* Where the resolution of a path string starts, and the names it goes
\* through; a trailing separator asks for a directory, as a final "." does.
StartOf(path) == IF path # <<>> /\ path[1] = Sep THEN <<>> ELSE cwd

Segments(path) ==
  Components(path) \o (IF path # <<>> /\ path[Len(path)] = Sep THEN << <<".">> >> ELSE <<>>)

\* Path resolution by the kernel: "." stays, ".." goes to the parent, a name
\* goes to the entry of that name; every location passed through must be a
\* directory.
RECURSIVE resolve_from(_, _, _)
resolve_from(disk, loc, segs) ==
  IF loc \notin DOMAIN disk THEN [found |-> FALSE, loc |-> loc]
  ELSE IF segs = <<>> THEN [found |-> TRUE, loc |-> loc]
  ELSE IF disk[loc].kind # "dir" THEN [found |-> FALSE, loc |-> loc]
  ELSE IF Head(segs) = <<".">> THEN resolve_from(disk, loc, Tail(segs))
  ELSE IF Head(segs) = <<".", ".">> THEN resolve_from(disk, Parent(loc), Tail(segs))
  ELSE resolve_from(disk, Append(loc, Head(segs)), Tail(segs))

resolve(disk, path) == resolve_from(disk, StartOf(path), Segments(path))

\* os.path.exists(path)
os_path_exists(disk, path) == resolve(disk, path).found

\* os.rmdir(path)
os_rmdir(disk, path) ==
  LET r    == resolve(disk, path)
      segs == Components(path)
      last == IF segs = <<>> THEN <<>> ELSE segs[Len(segs)]
  IN  IF ~r.found THEN [raised |-> "FileNotFoundError", disk |-> disk]
      ELSE IF disk[r.loc].kind # "dir" THEN [raised |-> "NotADirectoryError", disk |-> disk]
      ELSE IF last \in {<<".">>, <<".", ".">>} \/ r.loc = <<>> \/ Children(disk, r.loc) # {}
      THEN [raised |-> "OSError", disk |-> disk]
      ELSE IF ~disk[Parent(r.loc)].writable THEN [raised |-> "PermissionError", disk |-> disk]
      ELSE [raised |-> "none", disk |-> Without(disk, r.loc)]

\* The entries of the directory at loc in the order os.scandir yields them:
\* ascending by name, or descending.
scandir(disk, loc, descending) ==
  LET names == Sorted(SetToSeq({l[Len(l)] : l \in Children(disk, loc)}))
  IN  [i \in 1..Len(names) |->
         Append(loc, names[IF descending THEN Len(names) + 1 - i ELSE i])]

\* shutil._rmtree_safe_fd: the entries of the directory at loc are removed
\* one after the other, a directory after what it holds; the first failure
\* is raised and leaves the rest in place.
RECURSIVE rmtree_entries(_, _, _, _)
rmtree_entries(disk, loc, todo, descending) ==
  IF todo = <<>> THEN [raised |-> "none", disk |-> disk]
  ELSE LET entry == Head(todo)
           inner == IF disk[entry].kind = "dir"
                    THEN rmtree_entries(disk, entry, scandir(disk, entry, descending),
                                        descending)
                    ELSE [raised |-> "none", disk |-> disk]
       IN  IF inner.raised # "none" THEN inner
           ELSE IF ~disk[loc].writable
           THEN [raised |-> "PermissionError", disk |-> inner.disk]
           ELSE rmtree_entries(Without(inner.disk, entry), loc, Tail(todo), descending)

\* shutil.rmtree(path)
shutil_rmtree(disk, path, descending) ==
  LET r == resolve(disk, path)
  IN  IF ~r.found THEN [raised |-> "FileNotFoundError", disk |-> disk]
      ELSE IF disk[r.loc].kind # "dir" THEN [raised |-> "NotADirectoryError", disk |-> disk]
      ELSE LET inner == rmtree_entries(disk, r.loc, scandir(disk, r.loc, descending),
                                       descending)
           IN  IF inner.raised # "none" THEN inner ELSE os_rmdir(inner.disk, path)

\* The directory a path names is made, with the directories that lead to
\* it, where they are missing.
RECURSIVE create_from(_, _, _)
create_from(disk, loc, segs) ==
  IF disk[loc].kind # "dir" THEN [ok |-> FALSE, disk |-> disk, loc |-> loc]
  ELSE IF segs = <<>> THEN [ok |-> TRUE, disk |-> disk, loc |-> loc]
  ELSE IF Head(segs) = <<".">> THEN create_from(disk, loc, Tail(segs))
  ELSE IF Head(segs) = <<".", ".">> THEN create_from(disk, Parent(loc), Tail(segs))
  ELSE LET next == Append(loc, Head(segs))
       IN  IF next \in DOMAIN disk THEN create_from(disk, next, Tail(segs))
           ELSE IF ~disk[loc].writable THEN [ok |-> FALSE, disk |-> disk, loc |-> loc]
           ELSE create_from(disk @@ (next :> PlainDir), next, Tail(segs))

\* What git writes on stderr when the clone fails.
stderr_of ==
  [auth      |-> <<"f","a","t","a","l",":"," ","A","u","t","h","e","n","t","i","c","a","t","i","o","n"," ","f","a","i","l","e","d"," ","f","o","r"," ","t","h","e"," ","r","e","m","o","t","e">>,
   missing   |-> <<"r","e","m","o","t","e",":"," ","R","e","p","o","s","i","t","o","r","y"," ","n","o","t"," ","f","o","u","n","d",".">>,
   gone      |-> <<"f","a","t","a","l",":"," ","r","e","p","o","s","i","t","o","r","y"," ","N","o","t"," ","F","o","u","n","d">>,
   timeout   |-> <<"f","a","t","a","l",":"," ","u","n","a","b","l","e"," ","t","o"," ","a","c","c","e","s","s"," ","t","h","e"," ","r","e","m","o","t","e",":"," ","O","p","e","r","a","t","i","o","n"," ","t","i","m","e","d"," ","o","u","t">>,
   exists    |-> <<"f","a","t","a","l",":"," ","d","e","s","t","i","n","a","t","i","o","n"," ","p","a","t","h"," ","a","l","r","e","a","d","y"," ","e","x","i","s","t","s"," ","a","n","d"," ","i","s"," ","n","o","t"," ","a","n"," ","e","m","p","t","y"," ","d","i","r","e","c","t","o","r","y",".">>,
   denied    |-> <<"f","a","t","a","l",":"," ","c","o","u","l","d"," ","n","o","t"," ","c","r","e","a","t","e"," ","w","o","r","k"," ","t","r","e","e"," ","d","i","r",":"," ","P","e","r","m","i","s","s","i","o","n"," ","d","e","n","i","e","d">>]

\* str(e) of a GitCommandError: the text holds git's stderr (and the command
\* line, which cannot hold either of the phrases looked for: they have a
\* space in them).
git_error_text(stderr) == <<"C","m","d","(","'","g","i","t","'",")"," ","f","a","i","l","e","d"," ","d","u","e"," ","t","o",":"," ","e","x","i","t"," ","c","o","d","e","(","1","2","8",")"," ","s","t","d","e","r","r",":"," ">> \o stderr

GitFailed(stderr, disk) ==
  [raised |-> "GitCommandError", text |-> git_error_text(stderr), disk |-> disk]

\* git.Repo.clone_from(url, target_dir, depth=1, timeout=timeout), remote
\* being how the remote end answers: the tree is cloned into a directory
\* that is empty, or that is missing and is made with the directories that
\* lead to it; a clone that fails removes the directory it has made.
clone_from(disk, url, target_dir, by, remote) ==
  LET dest == resolve(disk, target_dir)
      made == create_from(disk, StartOf(target_dir), Segments(target_dir))
  IN  IF remote = "crash"
      THEN [raised |-> "Exception", text |-> <<"g","i","t"," ","e","x","e","c","u","t","a","b","l","e"," ","n","o","t"," ","f","o","u","n","d">>, disk |-> disk]
      ELSE IF dest.found /\ (disk[dest.loc].kind # "dir" \/ Children(disk, dest.loc) # {})
      THEN GitFailed(stderr_of.exists, disk)
      ELSE IF \/ ~made.ok
              \/ ~made.disk[made.loc].writable
              \/ (~dest.found /\ made.loc \in DOMAIN disk)
      THEN GitFailed(stderr_of.denied, made.disk)
      ELSE IF remote # "ok"
      THEN GitFailed(stderr_of[remote],
                     IF dest.found THEN made.disk ELSE Without(made.disk, made.loc))
      ELSE [raised |-> "none", text |-> <<>>,
            disk |-> [made.disk EXCEPT ![made.loc] = WorkTree(url, by)]
                       @@ (Append(made.loc, n_dot_git) :> PlainDir)]

\* The remote ends.
Remotes == {"ok", "auth", "missing", "gone", "timeout", "crash"}

\* return success, path, error
Returned(success, path, error) ==
  [type |-> "returned", success |-> success, path |-> path, error |-> error]

NoResult == [type |-> "none"]

\* A call that has not been made.  given_dir is the target_dir the caller
\* passes, target_dir the variable from line 68 on; before is the disk the
\* call started on, deleted the locations its rmtree has removed, attempted
\* whether it has run the clone.
IdleCall ==
  [pc |-> "idle", url |-> NoneStr, given_dir |-> NoneStr, target_dir |-> NoneStr,
   deleted |-> {},
   attempted |-> FALSE, before |-> <<>>, result |-> NoResult]

\* The two calls.
Slots == {1, 2}

\* The URLs the calls are made with.
u_alice_app == <<"h","t","t","p","s",":","/","/","g","i","t","h","u","b",".","c","o","m","/","a","l","i","c","e","/","a","p","p">>
u_bob_app == <<"h","t","t","p","s",":","/","/","g","i","t","h","u","b",".","c","o","m","/","b","o","b","/","a","p","p">>
u_alice_lib_git == <<"h","t","t","p","s",":","/","/","g","i","t","h","u","b",".","c","o","m","/","a","l","i","c","e","/","l","i","b",".","g","i","t">>
u_alice_dotdot == <<"h","t","t","p","s",":","/","/","g","i","t","h","u","b",".","c","o","m","/","a","l","i","c","e","/",".",".">>
u_alice_dot_git == <<"h","t","t","p","s",":","/","/","g","i","t","h","u","b",".","c","o","m","/","a","l","i","c","e","/",".","g","i","t">>
u_gitlab_app == <<"h","t","t","p","s",":","/","/","g","i","t","l","a","b",".","c","o","m","/","a","l","i","c","e","/","a","p","p">>
u_alice_only == <<"h","t","t","p","s",":","/","/","g","i","t","h","u","b",".","c","o","m","/","a","l","i","c","e">>
u_no_scheme == <<"g","i","t","h","u","b",".","c","o","m","/","a","l","i","c","e","/","a","p","p">>
u_bracket == <<"h","t","t","p",":","/","/","[">>

Urls ==
  {u_alice_app, u_bob_app, u_alice_lib_git, u_alice_dotdot, u_alice_dot_git,
   u_gitlab_app, u_alice_only, u_no_scheme, u_bracket}

\* The explicit target directories the calls are made with; NoneStr for none.
TargetDirs == {NoneStr, <<"o","u","t">>}

n_temp_repos == <<"t","e","m","p","_","r","e","p","o","s">>
n_keep_txt == <<"k","e","e","p",".","t","x","t">>
n_app == <<"a","p","p">>
n_lib == <<"l","i","b">>
n_out == <<"o","u","t">>

\* The disks the calls start from: temp_dir is there, as __init__ makes it;
\* with nothing in it, with a working tree of alice/app cloned before, and
\* also with one of alice/lib in a directory that is not writable.
EmptyDisk ==
  (<<>> :> PlainDir) @@ (cwd :> PlainDir) @@ (Append(cwd, n_keep_txt) :> PlainFile)
    @@ (Append(cwd, n_temp_repos) :> PlainDir)

AppDisk ==
  EmptyDisk @@ (<<cwd[1], n_temp_repos, n_app>> :> WorkTree(u_alice_app, 0))
    @@ (<<cwd[1], n_temp_repos, n_app, n_dot_git>> :> PlainDir)

LockedDisk ==
  AppDisk @@ (<<cwd[1], n_temp_repos, n_lib>> :>
                [kind |-> "dir", writable |-> FALSE,
                 snapshot |-> [url |-> u_alice_lib_git, by |-> 0]])
    @@ (<<cwd[1], n_temp_repos, n_lib, n_dot_git>> :> PlainDir)

GitDisks == {EmptyDisk, AppDisk, LockedDisk}

\* GitHandler(): temp_dir = "./temp_repos", made if it is missing.
GitInit ==
  /\ \E disk \in GitDisks :
       git = [temp_dir |-> <<".","/","t","e","m","p","_","r","e","p","o","s">>, disk |-> disk,
              calls |-> [i \in Slots |-> IdleCall]]
  /\ ScannerUnused
  /\ ParserUnused
  /\ WalkUnused
  /\ TrackerUnused
  /\ LlmUnused

\* clone_repository(url, target_dir), lines 55-68: the URL is validated and
\* the target directory is settled.
CloneBegin(i, url, target_dir) ==
  LET checked   == validate_github_url(url)
      repo_name == extract_repo_name(url)
      call      == [git.calls[i] EXCEPT !.url = url, !.given_dir = target_dir,
                                        !.before = git.disk]
  IN  /\ git.calls[i].pc = "idle"
      /\ git' = [git EXCEPT !.calls[i] =
                   IF ~checked.is_valid
                   THEN [call EXCEPT !.pc = "done",
                                     !.result = Returned(FALSE, <<>>, checked.error_msg)]
                   ELSE IF target_dir # NoneStr
                   THEN [call EXCEPT !.pc = "remove", !.target_dir = target_dir]
                   ELSE IF repo_name.raised # "none"
                   THEN [call EXCEPT !.pc = "done", !.result = Raised(repo_name.raised)]
                   ELSE [call EXCEPT !.pc = "remove",
                                     !.target_dir = Join(git.temp_dir, repo_name.name)]]
      /\ UNCHANGED <<fs, root_path, ignored_dirs, max_depth, tree, prev_tree, enumerated,
                     parsed, frames, tracker, llm>>

\* Lines 70-71: what is at the target directory is removed; what rmtree
\* raises leaves the call.
CloneRemove(i, descending) ==
  LET call    == git.calls[i]
      removal == shutil_rmtree(git.disk, call.target_dir, descending)
  IN  /\ call.pc = "remove"
      /\ IF ~os_path_exists(git.disk, call.target_dir)
         THEN git' = [git EXCEPT !.calls[i].pc = "clone"]
         ELSE git' = [git EXCEPT
                        !.disk = removal.disk,
                        !.calls[i].deleted = DOMAIN git.disk \ DOMAIN removal.disk,
                        !.calls[i].pc = IF removal.raised = "none" THEN "clone" ELSE "done",
                        !.calls[i].result =
                           IF removal.raised = "none" THEN @ ELSE Raised(removal.raised)]
      /\ UNCHANGED <<fs, root_path, ignored_dirs, max_depth, tree, prev_tree, enumerated,
                     parsed, frames, tracker, llm>>

\* Lines 73-96: the clone, and what is returned for it.
CloneFetch(i, remote) ==
  LET call    == git.calls[i]
      cloned  == clone_from(git.disk, call.url, call.target_dir, i, remote)
      error_msg ==
        IF Contains(cloned.text, <<"A","u","t","h","e","n","t","i","c","a","t","i","o","n"," ","f","a","i","l","e","d">>) THEN <<"R","e","p","o","s","i","t","o","r","y"," ","i","s"," ","p","r","i","v","a","t","e">>
        ELSE IF Contains(Lower(cloned.text), <<"n","o","t"," ","f","o","u","n","d">>) THEN <<"R","e","p","o","s","i","t","o","r","y"," ","n","o","t"," ","f","o","u","n","d">>
        ELSE <<"G","i","t"," ","c","l","o","n","e"," ","f","a","i","l","e","d",":"," ">> \o cloned.text
  IN  /\ call.pc = "clone"
      /\ git' = [git EXCEPT
                   !.disk = cloned.disk,
                   !.calls[i].attempted = TRUE,
                   !.calls[i].pc = "done",
                   !.calls[i].result =
                      IF cloned.raised = "none" THEN Returned(TRUE, call.target_dir, <<>>)
                      ELSE IF cloned.raised = "GitCommandError"
                      THEN Returned(FALSE, <<>>, error_msg)
                      ELSE Returned(FALSE, <<>>, <<"U","n","e","x","p","e","c","t","e","d"," ","e","r","r","o","r",":"," ">> \o cloned.text)]
      /\ UNCHANGED <<fs, root_path, ignored_dirs, max_depth, tree, prev_tree, enumerated,
                     parsed, frames, tracker, llm>>

GitNext ==
  \/ \E i \in Slots, url \in Urls, target_dir \in TargetDirs : CloneBegin(i, url, target_dir)
  \/ \E i \in Slots, descending \in BOOLEAN : CloneRemove(i, descending)
  \/ \E i \in Slots, remote \in Remotes : CloneFetch(i, remote)

GitSpec == GitInit /\ [][GitNext]_vars

(***************************************************************************)
(* frontend/app.py: render_progress_tracker.  tracker holds where the      *)
(* function is (in its loop, returned, or left by an exception), the loop  *)
(* counter, how many times get_status has been called, and what the last   *)
(* call gave.                                                              *)
(***************************************************************************)

\* max_iterations = 60
max_iterations == 60

\* What client.get_status(session_id) gives: {"success": False, ...} when the
\* request fails, else {"success": True, "data": ...} with the status and
\* the progress the server reports ("unknown" and 0.0 when it reports none).
Statuses == {"completed", "failed", "processing", "pending", "unknown"}

Progresses == {0, 50, 100, 250}

StatusResults ==
  {[success |-> FALSE, status |-> "unknown", progress |-> 0]}
    \cup [success : {TRUE}, status : Statuses, progress : Progresses]

\* st.progress(value) raises for a value outside [0.0, 1.0]; the value is
\* progress / 100.0.
progress_raises(progress) == progress < 0 \/ progress > 100

breaks_only_when_completed(status) == status = "completed"

\* The two tests of lines 200-205 that end the loop.
breaks(status) == status = "completed" \/ status = "failed"

NotPolled == [success |-> TRUE, status |-> "none", progress |-> 0]

TrackerInit ==
  /\ tracker = [pc |-> "polling", iteration |-> 0, polls |-> 0, last |-> NotPolled]
  /\ ScannerUnused
  /\ ParserUnused
  /\ WalkUnused
  /\ GitUnused
  /\ LlmUnused

\* One turn of the loop, lines 186-208.
Poll(status_result) ==
  /\ tracker.pc = "polling"
  /\ tracker.iteration < max_iterations
  /\ tracker' =
       [pc |-> IF ~status_result.success THEN "returned"
               ELSE IF progress_raises(status_result.progress) THEN "raised"
               ELSE IF breaks(status_result.status) THEN "returned"
               ELSE "polling",
        iteration |-> IF /\ status_result.success
                         /\ ~progress_raises(status_result.progress)
                         /\ ~breaks(status_result.status)
                      THEN tracker.iteration + 1
                      ELSE tracker.iteration,
        polls |-> tracker.polls + 1,
        last |-> status_result]
  /\ UNCHANGED <<fs, root_path, ignored_dirs, max_depth, tree, prev_tree, enumerated,
                 parsed, frames, git, llm>>

\* Line 186, when the condition of the loop is false.
LoopExit ==
  /\ tracker.pc = "polling"
  /\ tracker.iteration >= max_iterations
  /\ tracker' = [tracker EXCEPT !.pc = "returned"]
  /\ UNCHANGED <<fs, root_path, ignored_dirs, max_depth, tree, prev_tree, enumerated,
                 parsed, frames, git, llm>>

TrackerNext ==
  \/ \E status_result \in StatusResults : Poll(status_result)
  \/ LoopExit

\* Every call of get_status and every sleep comes to an end (the request has
\* a timeout of five seconds), so the loop goes on as long as it can.
TrackerSpec == TrackerInit /\ [][TrackerNext]_vars /\ WF_vars(TrackerNext)

(***************************************************************************)
(* config/llm_config.py: LLMConfig.  llm holds _client (0 for None, else   *)
(* the number of the AsyncOpenAI object), how many such objects have been  *)
(* made, which of them have been closed, and the coroutines that call      *)
(* get_completion on the one LLMConfig: where each is, the client it was   *)
(* handed, whether that client was closed when the request was issued      *)
(* with it, how many calls it has finished and what the last one returned. *)
(***************************************************************************)

\* The coroutines, and how many calls of get_completion each makes.
Tasks == {1, 2, 3}

MaxCompletions == 2

\* The coroutine is not inside get_completion.
Outside(done, returned) ==
  [pc |-> "outside", client |-> 0, closed_at_use |-> FALSE, done |-> done,
   returned |-> returned]

\* LLMConfig(): _client = None.
LlmInit ==
  /\ llm = [_client |-> 0, made |-> 0, closed |-> {},
            tasks |-> [t \in Tasks |-> Outside(0, "none")]]
  /\ ScannerUnused
  /\ ParserUnused
  /\ WalkUnused
  /\ GitUnused
  /\ TrackerUnused

\* get_completion up to its first suspension, lines 25-27 with 16-20: a
\* client is made if _client is None, the client is handed out and the
\* request is issued with it.
GetCompletionEnter(t) ==
  LET fresh  == llm._client = 0
      client == IF fresh THEN llm.made + 1 ELSE llm._client
  IN  /\ llm.tasks[t].pc = "outside"
      /\ llm.tasks[t].done < MaxCompletions
      /\ llm' = [llm EXCEPT
                   !._client = client,
                   !.made = IF fresh THEN @ + 1 ELSE @,
                   !.tasks[t] = [@ EXCEPT !.pc = "awaiting", !.client = client,
                                          !.closed_at_use = client \in llm.closed]]
      /\ UNCHANGED <<fs, root_path, ignored_dirs, max_depth, tree, prev_tree, enumerated,
                     parsed, frames, git, tracker>>

\* The rest of get_completion, lines 27-35 with 21-22: the request gives a
\* response or raises, which it does on a client that is closed; the result
\* is made, and on the way out _client is closed.
GetCompletionLeave(t, answered) ==
  /\ llm.tasks[t].pc = "awaiting"
  /\ answered => llm.tasks[t].client \notin llm.closed
  /\ llm' = [llm EXCEPT
               !.closed = @ \cup {llm._client},
               !.tasks[t] = Outside(llm.tasks[t].done + 1,
                                    IF answered THEN "success" ELSE "error")]
  /\ UNCHANGED <<fs, root_path, ignored_dirs, max_depth, tree, prev_tree, enumerated,
                 parsed, frames, git, tracker>>

LlmNext ==
  \/ \E t \in Tasks : GetCompletionEnter(t)
  \/ \E t \in Tasks, answered \in BOOLEAN : GetCompletionLeave(t, answered)

LlmSpec == LlmInit /\ [][LlmNext]_vars

(***************************************************************************)
(* What a result tree holds, and what the filesystem holds                 *)
(***************************************************************************)

\* The nodes of a result tree with their depth below its root.
RECURSIVE NodesFrom(_, _)
NodesFrom(t, d) ==
  IF t.type = "file" THEN {[node |-> t, depth |-> d]}
  ELSE IF t.type = "directory"
  THEN {[node |-> t, depth |-> d]}
         \cup UNION {NodesFrom(t.children[i], d + 1) : i \in 1..Len(t.children)}
  ELSE {}

TreeNodes == NodesFrom(tree, 0)
TreeFiles == {x.node : x \in {y \in TreeNodes : y.node.type = "file"}}
TreePaths == {x.node.path : x \in TreeNodes}

\* The tree node with a given path, where there is one.
NodeAt(path) == (CHOOSE x \in TreeNodes : x.node.path = path).node

\* generate_file_tree has been called and has returned a node.
HasTree == tree # NotCalled /\ tree.type \in {"file", "directory"}

\* The entries that really lie beneath a directory (links are entries, what
\* they point to is not), each with the path the scanner would give it, its
\* depth below the root, and whether every directory above it can be listed
\* and no part of its path is an ignored name.
RECURSIVE FsBelow(_, _, _, _)
FsBelow(node, path, depth, open) ==
  IF node.kind # "dir" THEN {}
  ELSE UNION { LET p == Join(path, n)
                   o == open /\ node.readable /\ ~(\E i \in 1..Len(ignored_dirs) :
                                                      InList(ignored_dirs[i], Components(p)))
               IN  {[path |-> p, parent |-> path, depth |-> depth + 1,
                     node |-> node.entries[n], open |-> o]}
                     \cup FsBelow(node.entries[n], p, depth + 1, o)
             : n \in DOMAIN node.entries }

FsEntries == FsBelow(Stat(fs, root_path), root_path, 0, TRUE)

\* Some part of the path is an ignored name.
HasIgnoredPart(path) == \E i \in 1..Len(ignored_dirs) : InList(ignored_dirs[i], Components(path))

\* The root is a directory that can be listed.
RootReadable == Stat(fs, root_path).kind = "dir" /\ Stat(fs, root_path).readable

(***************************************************************************)
(* Properties                                                              *)
(***************************************************************************)

\* C1: the tree generate_file_tree returns has no node, file or directory, at
\* any depth, whose path has a part equal to an ignored name, and nothing that
\* lies under an ignored directory of the filesystem has a node.
C1_IgnoredAbsent ==
  HasTree =>
    /\ \A x \in TreeNodes : ~HasIgnoredPart(x.node.path)
    /\ \A e \in FsEntries : HasIgnoredPart(e.path) => e.path \notin TreePaths

\* An ignored directory holding a file lies within the depth bound, the rest
\* of the root was scanned, and neither has a node.
C1_Witness ==
  /\ HasTree
  /\ tree.type = "directory"
  /\ Len(tree.children) >= 2
  /\ \E d, f \in FsEntries :
       /\ d.node.kind = "dir" /\ f.node.kind = "file" /\ f.parent = d.path
       /\ Basename(d.path) \in Elems(ignored_dirs)
       /\ f.depth <= max_depth
       /\ d.path \notin TreePaths /\ f.path \notin TreePaths

\* C2, as stated: a directory nested deeper than max_depth, under a parent
\* that is in the tree, is in the tree as a directory node with no children.
C2_DeepDirPresent ==
  HasTree =>
    \A e \in FsEntries :
      (e.node.kind = "dir" /\ e.open /\ e.depth > max_depth /\ e.parent \in TreePaths)
        => /\ e.path \in TreePaths
           /\ NodeAt(e.path).type = "directory"
           /\ NodeAt(e.path).children = <<>>

\* C2, amended: a directory at depth exactly max_depth is in the tree as a
\* directory node with no children, a directory deeper than max_depth has no
\* node, and no call ends in an error.
C2_CutoffDir ==
  /\ tree # NotCalled => tree.type # "raised"
  /\ HasTree =>
       /\ (max_depth = 0 /\ tree.type = "directory") => tree.children = <<>>
       /\ \A e \in FsEntries :
            (e.node.kind = "dir" /\ e.open) =>
              /\ e.depth = max_depth =>
                   /\ e.path \in TreePaths
                   /\ NodeAt(e.path).type = "directory"
                   /\ NodeAt(e.path).children = <<>>
              /\ e.depth > max_depth => e.path \notin TreePaths

\* A directory with entries sits exactly at the cutoff, in the tree and empty
\* there, and a directory one level further down has no node.
C2_Witness ==
  /\ HasTree
  /\ \E e, g \in FsEntries :
       /\ e.node.kind = "dir" /\ e.open /\ e.depth = max_depth
       /\ g.node.kind = "dir" /\ g.open /\ g.parent = e.path
       /\ e.path \in TreePaths /\ NodeAt(e.path).children = <<>>
       /\ g.path \notin TreePaths

\* C3: every node of the tree lies at most max_depth levels below the root,
\* and no entry of the filesystem deeper than that, file or directory, has a node.
C3_DepthBound ==
  HasTree =>
    /\ \A x \in TreeNodes : x.depth <= max_depth
    /\ \A e \in FsEntries : e.depth > max_depth => e.path \notin TreePaths

\* A file at depth max_depth is in the tree and a readable, unignored file one
\* level further down is not.
C3_Witness ==
  /\ HasTree
  /\ \E x \in TreeNodes : x.depth = max_depth /\ x.node.type = "file"
  /\ \E e \in FsEntries :
       /\ e.node.kind = "file" /\ e.open /\ e.depth = max_depth + 1
       /\ e.parent \in TreePaths
       /\ e.path \notin TreePaths

\* C4: two calls of generate_file_tree on the unchanged filesystem return the
\* same tree whatever order the directories were listed in, and the children
\* of every directory node are in ascending order of name.
C4_Deterministic ==
  /\ prev_tree # NotCalled => tree = prev_tree
  /\ HasTree =>
       \A x \in TreeNodes :
         x.node.type = "directory" =>
           \A i, j \in 1..Len(x.node.children) :
             i < j => StrLess(x.node.children[i].name, x.node.children[j].name)

\* Two calls have been made and the tree has a directory with three children.
C4_Witness ==
  /\ prev_tree # NotCalled
  /\ HasTree
  /\ \E x \in TreeNodes : x.node.type = "directory" /\ Len(x.node.children) >= 3

\* The path leads, through links or not, to a directory that cannot be listed.
IsLockedDir(path) == Stat(fs, path).kind = "dir" /\ ~Stat(fs, path).readable

\* A result tree without the nodes of unreadable directories.
RECURSIVE WithoutLockedNodes(_)
WithoutLockedNodes(t) ==
  IF t.type # "directory" THEN t
  ELSE LET kept == SelectSeq(t.children, LAMBDA c : ~IsLockedDir(c.path))
       IN  [t EXCEPT !.children = [i \in 1..Len(kept) |-> WithoutLockedNodes(kept[i])]]

\* A filesystem without its unreadable directories.
RECURSIVE WithoutLocked(_)
WithoutLocked(node) ==
  IF node.kind # "dir" THEN node
  ELSE LET kept == {n \in DOMAIN node.entries :
                      ~(node.entries[n].kind = "dir" /\ ~node.entries[n].readable)}
       IN  [node EXCEPT !.entries = [n \in kept |-> WithoutLocked(node.entries[n])]]

\* C5: when listing a subdirectory below the root fails with a permission
\* error, no exception leaves generate_file_tree, the subdirectory is a
\* directory node without children, and the rest of the tree is what the scan
\* returns when the unreadable directories are not there at all.
C5_UnreadableSubdir ==
  /\ tree # NotCalled => tree.type # "raised"
  /\ (HasTree /\ RootReadable) =>
       /\ \A e \in FsEntries :
            (e.node.kind = "dir" /\ ~e.node.readable /\ e.open /\ e.depth <= max_depth)
              => e.path \in TreePaths
       /\ \A x \in TreeNodes :
            IsLockedDir(x.node.path)
              => x.node.type = "directory" /\ x.node.children = <<>>
       /\ \A order \in Orders :
            WithoutLockedNodes(tree)
              = generate_file_tree(WithoutLocked(fs), root_path, max_depth, order)

\* An unreadable directory is in the tree without children, and a readable
\* directory beside it is in the tree with its children.
C5_Witness ==
  /\ HasTree /\ RootReadable
  /\ \E e, g \in FsEntries :
       /\ e.node.kind = "dir" /\ ~e.node.readable /\ e.depth = 1
       /\ g.node.kind = "dir" /\ g.node.readable /\ g.depth = 1
       /\ e.path \in TreePaths /\ NodeAt(e.path).children = <<>>
       /\ g.path \in TreePaths /\ Len(NodeAt(g.path).children) >= 2

\* What generate_file_tree returns for a root that is an empty, readable directory.
EmptyRootResult ==
  [name |-> Basename(root_path), type |-> "directory", path |-> root_path, children |-> <<>>]

\* C6: when the root does not exist or cannot be read, the caller gets a
\* failure that differs from the result for an existing, readable, empty root.
C6_RootFailureDistinct ==
  (tree # NotCalled /\ ~RootReadable) => tree # EmptyRootResult

\* The entries below the root that are symbolic links.
LinkPaths == {e.path : e \in {x \in FsEntries : x.node.kind = "link"}}

\* A path is the other path or lies beneath it.
IsAtOrUnder(path, other) ==
  /\ Len(path) >= Len(other)
  /\ SubSeq(path, 1, Len(other)) = other
  /\ (Len(path) = Len(other) \/ path[Len(other) + 1] = Sep)

\* C7: no symbolic link is followed: the tree has no node for a link and no
\* node for anything reached through one.
C7_NoSymlinkNodes ==
  HasTree => \A x \in TreeNodes : \A l \in LinkPaths : ~IsAtOrUnder(x.node.path, l)

\* C8: every path get_all_files or find_entry_points returns is the path of
\* a file node of the tree generate_file_tree returns for the same root.
C8_EnumeratedInTree ==
  (tree # NotCalled /\ enumerated.op \in {"get_all_files", "find_entry_points"}) =>
    Elems(enumerated.paths) \subseteq {f.path : f \in TreeFiles}

\* The language tags: the languages of the table and 'unknown'.
LanguageTags ==
  {language_extensions[i].language : i \in 1..Len(language_extensions)} \cup {"unknown"}

\* The number of file nodes of the tree that carry a tag.
LanguageCount(tag) == Cardinality({f \in TreeFiles : f.language = tag})

RECURSIVE SumCounts(_)
SumCounts(tags) ==
  IF tags = {} THEN 0
  ELSE LET t == CHOOSE t \in tags : TRUE IN LanguageCount(t) + SumCounts(tags \ {t})

\* C9: every file node carries one language tag, a language of the table or
\* 'unknown', so the counts of file nodes by tag add up to the number of file
\* nodes; and no extension is listed under two languages.
C9_LanguageCounts ==
  /\ HasTree =>
       /\ \A f \in TreeFiles : f.language \in LanguageTags
       /\ SumCounts(LanguageTags) = Cardinality(TreeFiles)
  /\ \A i, j \in 1..Len(language_extensions) :
       i # j => Elems(language_extensions[i].extensions)
                  \cap Elems(language_extensions[j].extensions) = {}

\* The tree has a file of a known language, a file of another known language
\* and a file tagged 'unknown'.
C9_Witness ==
  /\ HasTree
  /\ \E f, g, h \in TreeFiles :
       /\ f.language = "unknown"
       /\ g.language = "python"
       /\ h.language \in LanguageTags \ {"unknown", "python"}

\* The names directly in the root directory.
RootNames ==
  IF Stat(fs, root_path).kind = "dir" THEN DOMAIN Stat(fs, root_path).entries ELSE {}

\* C10: find_readme returns the first name of its list that is in the root,
\* joined to the root, and None when none is; with README.md and readme.md
\* both there it returns README.md.
C10_FirstReadme ==
  enumerated.op = "find_readme" =>
    /\ enumerated.path = NoneStr <=> Elems(readme_patterns) \cap RootNames = {}
    /\ enumerated.path # NoneStr =>
         \E i \in 1..Len(readme_patterns) :
           /\ enumerated.path = Join(root_path, readme_patterns[i])
           /\ readme_patterns[i] \in RootNames
           /\ \A j \in 1..(i - 1) : readme_patterns[j] \notin RootNames
    /\ {n_README_md, n_readme_md} \subseteq RootNames
         => enumerated.path = Join(root_path, n_README_md)

\* README.md and readme.md are both in the root and find_readme has returned
\* the path of README.md.
C10_Witness ==
  /\ enumerated.op = "find_readme"
  /\ {n_README_md, n_readme_md} \subseteq RootNames
  /\ enumerated.path = Join(root_path, n_README_md)

\* The lower-cased entry-point names.
EntryNames == {Lower(entry_patterns[i]) : i \in 1..Len(entry_patterns)}

\* Every directory from the root down to the entry can be listed.
Listable(e) ==
  /\ RootReadable
  /\ \A d \in FsEntries :
       (d.node.kind = "dir" /\ IsAtOrUnder(e.parent, d.path)) => d.node.readable

\* C11, as stated: find_entry_points returns exactly the files named like an
\* entry point, whatever the case of the letters, that lie in the root or one
\* level below it; nothing two or more levels below the root is returned, with
\* or without a trailing separator on the root path.
C11_EntryPointDepth ==
  enumerated.op = "find_entry_points" =>
    /\ \A i \in 1..Len(enumerated.paths) :
         \E e \in FsEntries :
           /\ e.path = enumerated.paths[i]
           /\ e.depth <= 2
           /\ Lower(Basename(e.path)) \in EntryNames
    /\ \A e \in FsEntries :
         (/\ e.node.kind = "file" /\ e.depth <= 2 /\ Listable(e)
          /\ Lower(Basename(e.path)) \in EntryNames)
           => InList(e.path, enumerated.paths)

\* The extensions of compiled bytecode, shared objects, archives and binary
\* media.
DeniedExtensions ==
  { <<".","p","y","c">>, <<".","s","o">>, <<".","z","i","p">>, <<".","p","n","g">> }

\* C15, as stated: a path whose base name starts with a dot, or whose
\* extension is a denied one, is ignored even though no part of it is an
\* ignored directory name, so the tree has no node for it.
C15_HiddenAndDeniedAbsent ==
  HasTree =>
    \A x \in TreeNodes :
      /\ ~(Len(x.node.name) > 0 /\ x.node.name[1] = ".")
      /\ SplitextExt(x.node.name) \notin DeniedExtensions

\* The lower-cased README names.
ReadmeNames == {Lower(readme_patterns[i]) : i \in 1..Len(readme_patterns)}

\* C20, as stated: when no README name of the priority list is in the root
\* with its exact case, find_readme falls back to a match that ignores case and
\* returns a file of the root whose name differs from a README name only in
\* case, not None.
C20_ReadmeCaseFallback ==
  (/\ enumerated.op = "find_readme"
   /\ Elems(readme_patterns) \cap RootNames = {}
   /\ \E n \in RootNames : Lower(n) \in ReadmeNames)
    => /\ enumerated.path # NoneStr
       /\ Lower(Basename(enumerated.path)) \in ReadmeNames

(***************************************************************************)
(* Properties of the extractors                                            *)
(***************************************************************************)

\* parse_python_file has been called on a content that ast.parse accepts.
PythonParsed ==
  parsed.op = "parse_python_file" /\ ast_parse(parsed.content).raised = "none"

\* The nodes of the content's syntax tree that are of one of the kinds, in the
\* order ast.walk yields them.
NodesOfKind(content, kinds) ==
  SelectSeq(ast_walk(<<ast_parse(content).tree>>), LAMBDA n : n.kind \in kinds)

\* The sources with one top-level function run(a, b) and one class
\* Worker(BaseWorker) whose only method is start.
ScenarioContents == {t_scenario, t_scenario_class_first}

RunRecord(f) == f.name = <<"r","u","n">> /\ f.params = << <<"a">>, <<"b">> >>

WorkerRecord(c) ==
  /\ c.name = <<"W","o","r","k","e","r">>
  /\ c.methods = << <<"s","t","a","r","t">> >>
  /\ c.inherits = << <<"B","a","s","e","W","o","r","k","e","r">> >>

\* C12, as stated: for such a source parse_python_file returns exactly one
\* function record, run with params [a, b], and exactly one class record,
\* Worker with methods [start] and inherits [BaseWorker].
C12_OneFunctionRecord ==
  (parsed.op = "parse_python_file" /\ parsed.content \in ScenarioContents) =>
    /\ Len(parsed.result.functions) = 1
    /\ RunRecord(parsed.result.functions[1])
    /\ Len(parsed.result.classes) = 1
    /\ WorkerRecord(parsed.result.classes[1])

\* C12, amended: for such a source parse_python_file returns exactly two
\* function records, one for run with params [a, b] and one for the method
\* start, and exactly one class record, Worker with methods [start] and
\* inherits [BaseWorker].
C12_ScenarioRecords ==
  (parsed.op = "parse_python_file" /\ parsed.content \in ScenarioContents) =>
    /\ Len(parsed.result.functions) = 2
    /\ \E i, j \in 1..2 :
         /\ i # j
         /\ RunRecord(parsed.result.functions[i])
         /\ parsed.result.functions[j].name = <<"s","t","a","r","t">>
    /\ Len(parsed.result.classes) = 1
    /\ WorkerRecord(parsed.result.classes[1])

\* The scenario source has been parsed and the method start has a function
\* record of its own.
C12_Witness ==
  /\ parsed.op = "parse_python_file"
  /\ parsed.content = t_scenario
  /\ \E i \in 1..Len(parsed.result.functions) :
       parsed.result.functions[i].name = <<"s","t","a","r","t">>
  /\ Len(parsed.result.classes) = 1

\* C13, as stated: on a content that is not valid Python parse_python_file
\* raises nothing and returns empty functions, classes and imports together
\* with an error message that is not empty.
C13_InvalidHasError ==
  (parsed.op = "parse_python_file" /\ ast_parse(parsed.content).raised # "none") =>
    /\ parsed.result.functions = <<>>
    /\ parsed.result.classes = <<>>
    /\ parsed.result.imports = <<>>
    /\ "error" \in DOMAIN parsed.result
    /\ parsed.result.error # <<>>

\* C14: on the empty content each of the three extractors returns empty
\* functions, classes and imports, and no error.
C14_EmptyContent ==
  (parsed.op # "none" /\ parsed.content = <<>>) =>
    /\ parsed.result.functions = <<>>
    /\ parsed.result.classes = <<>>
    /\ parsed.result.imports = <<>>
    /\ DOMAIN parsed.result = {"functions", "classes", "imports"}

\* An extractor has been called on the empty content.
C14_Witness ==
  /\ parsed.op \in {"parse_python_file", "parse_jac_file", "parse_javascript_file"}
  /\ parsed.content = <<>>
  /\ parsed.result.functions = <<>>

\* The names of the function definitions, plain or async, that are immediate
\* statements of a class body, in source order.
ImmediateDefs(class) ==
  LET defs == SelectSeq(class.body, LAMBDA n : n.kind \in {"FunctionDef", "AsyncFunctionDef"})
  IN  [i \in 1..Len(defs) |-> defs[i].name]

\* C16, as stated: every class definition has one class record, whose methods
\* list is the names of the function definitions, plain or async, that are
\* immediate statements of the class body, in source order.
C16_ClassMethods ==
  PythonParsed =>
    LET classes == NodesOfKind(parsed.content, {"ClassDef"})
    IN  /\ Len(parsed.result.classes) = Len(classes)
        /\ \A k \in 1..Len(classes) :
             /\ parsed.result.classes[k].name = classes[k].name
             /\ parsed.result.classes[k].methods = ImmediateDefs(classes[k])

\* C17: every class definition has a class record whose inherits list is the
\* identifiers of the bases that are plain names, in declaration order; a base
\* that is an attribute, a call or any other expression is left out and the
\* class keeps its record.
C17_Inherits ==
  PythonParsed =>
    LET classes == NodesOfKind(parsed.content, {"ClassDef"})
        names(class) == SelectSeq(class.bases, LAMBDA b : b.kind = "Name")
    IN  /\ Len(parsed.result.classes) = Len(classes)
        /\ \A k \in 1..Len(classes) :
             /\ parsed.result.classes[k].name = classes[k].name
             /\ Len(parsed.result.classes[k].inherits) = Len(names(classes[k]))
             /\ \A i \in 1..Len(names(classes[k])) :
                  parsed.result.classes[k].inherits[i] = names(classes[k])[i].id

\* A class whose bases are a name, an attribute, a call and a name has been
\* parsed, and its record lists the two names.
C17_Witness ==
  /\ PythonParsed
  /\ parsed.content = t_mixed_bases
  /\ Len(parsed.result.classes) = 1
  /\ parsed.result.classes[1].inherits = << <<"A">>, <<"D">> >>

\* C18, as stated: every function definition of the syntax tree, sync or
\* async, has one function record, and the record's async flag is the kind the
\* definition was declared with.
C18_FunctionRecords ==
  PythonParsed =>
    LET defs == NodesOfKind(parsed.content, {"FunctionDef", "AsyncFunctionDef"})
    IN  /\ Len(parsed.result.functions) = Len(defs)
        /\ \A k \in 1..Len(defs) :
             /\ parsed.result.functions[k].name = defs[k].name
             /\ "async" \in DOMAIN parsed.result.functions[k]
             /\ parsed.result.functions[k].async = (defs[k].kind = "AsyncFunctionDef")

\* The matches of a pattern in a content.
Matches(content, pattern(_, _)) ==
  re_findall([i \in 1..Len(content) |-> pattern(content, i)])

\* Every record has line 0 and empty params and methods lists.
PlainRecords(records, field) ==
  \A k \in 1..Len(records) :
    records[k].line = 0 /\ records[k][field] = <<>>

\* C19, as stated: the regular-expression extractors emit one record for each
\* match of a pattern, with line 0; the params, methods and inherits lists are
\* empty except where the pattern captures them: the params of a JavaScript
\* function record hold what the function pattern captured between the
\* parentheses, the inherits of a JavaScript class record hold the captured
\* parent.
C19_RegexRecords ==
  /\ parsed.op = "parse_jac_file" =>
       /\ Len(parsed.result.classes)
            = Len(Matches(parsed.content, walker_pattern))
                + Len(Matches(parsed.content, node_pattern))
       /\ Len(parsed.result.functions) = Len(Matches(parsed.content, ability_pattern))
       /\ PlainRecords(parsed.result.classes, "methods")
       /\ PlainRecords(parsed.result.classes, "inherits")
       /\ PlainRecords(parsed.result.functions, "params")
  /\ parsed.op = "parse_javascript_file" =>
       LET functions == Matches(parsed.content, function_pattern)
           classes == Matches(parsed.content, class_pattern)
       IN  /\ Len(parsed.result.functions) = Len(functions)
           /\ Len(parsed.result.classes) = Len(classes)
           /\ PlainRecords(parsed.result.classes, "methods")
           /\ \A k \in 1..Len(functions) :
                /\ parsed.result.functions[k].name = functions[k][1]
                /\ parsed.result.functions[k].line = 0
                /\ (parsed.result.functions[k].params = <<>>) = (functions[k][2] = <<>>)
           /\ \A k \in 1..Len(classes) :
                /\ parsed.result.classes[k].name = classes[k][1]
                /\ parsed.result.classes[k].line = 0
                /\ parsed.result.classes[k].inherits
                     = IF classes[k][2] = <<>> THEN <<>> ELSE <<classes[k][2]>>

(***************************************************************************)
(* Further properties of the scanner                                       *)
(***************************************************************************)

\* C24, as stated: the tree depends only on what lies beneath the root, not on
\* the root's own name or on a directory above it being an ignored name: a
\* root that is a directory that can be listed always gives a directory node,
\* never None.
C24_RootNameIrrelevant ==
  (tree # NotCalled /\ RootReadable) => tree.type = "directory"

\* C30, as stated: the files get_all_files(root, extensions of L) returns are
\* the files generate_file_tree(root) tags with the language L, within the
\* depth bound; here for L = python, whose extensions are the one filter the
\* enumerator is called with, and for the regular files that neither call
\* leaves out as ignored or unreadable.
C30_EnumeratorAgreesWithTags ==
  (/\ HasTree
   /\ enumerated.op = "get_all_files"
   /\ enumerated.extensions # NoneStr) =>
    \A e \in FsEntries :
      (e.node.kind = "file" /\ e.depth <= max_depth /\ e.open) =>
        (InList(e.path, enumerated.paths)
           <=> (e.path \in TreePaths /\ NodeAt(e.path).language = "python"))

\* C29: generate_file_tree terminates on every filesystem, one with a
\* directory link that points to a directory above it included: every walk
\* comes to its return, and no call of build_tree on the way is more than one
\* level deeper than max_depth.
C29_Terminates ==
  /\ <>(frames.pc = "returned")
  /\ [](\A i \in 1..Len(frames.stack) : frames.stack[i].depth <= max_depth + 1)

\* A walk has returned for a filesystem in which a link points back to the
\* root, after more calls than the root has entries beneath it: it went
\* through the link.
C29_Witness ==
  /\ frames.pc = "returned"
  /\ \E e \in FsEntries : e.node.kind = "link" /\ e.node.target = root_path
  /\ frames.calls > Cardinality(FsEntries) + 1

(***************************************************************************)
(* Properties of clone_repository                                          *)
(***************************************************************************)

\* A URL with a host other than github.com and www.github.com, with fewer
\* than two non-empty path segments, or that cannot be parsed.
Rejected(url) ==
  LET parts == urlparse(url)
  IN  \/ parts.raised # "none"
      \/ parts.netloc \notin {<<"g","i","t","h","u","b",".","c","o","m">>, <<"w","w","w",".","g","i","t","h","u","b",".","c","o","m">>}
      \/ Len(Components(parts.path)) < 2

\* The call was made with an accepted URL and without a target directory.
PlacedInTempDir(call) ==
  call.pc # "idle" /\ ~Rejected(call.url) /\ call.given_dir = NoneStr

\* C21: a call of clone_repository with a rejected URL returns
\* (False, "", message) with a non-empty message in the step that starts it,
\* and that step leaves the disk as it was: nothing is removed and no clone
\* is attempted.
C21_RejectedUrlChangesNothing ==
  [][\A i \in Slots :
       (git.calls[i].pc = "idle" /\ git'.calls[i].pc # "idle" /\ Rejected(git'.calls[i].url)) =>
         /\ git'.calls[i].pc = "done"
         /\ git'.calls[i].result.type = "returned"
         /\ git'.calls[i].result.success = FALSE
         /\ git'.calls[i].result.path = <<>>
         /\ git'.calls[i].result.error # <<>>
         /\ git'.disk = git.disk
         /\ git'.calls[i].deleted = {}
         /\ ~git'.calls[i].attempted]_vars

\* A call for gitlab.com/alice/app has returned while the working tree at
\* ./temp_repos/app, which a call for github.com/alice/app replaces, is there.
C21_Witness ==
  \E i \in Slots :
    /\ git.calls[i].pc = "done"
    /\ git.calls[i].url = u_gitlab_app
    /\ git.calls[i].given_dir = NoneStr
    /\ os_path_exists(git.disk, <<".","/","t","e","m","p","_","r","e","p","o","s","/","a","p","p">>)

\* C22: whatever a call of clone_repository ends with is returned, as
\* (True, path, "") with a non-empty path or as (False, "", message) with a
\* non-empty message; nothing is raised.
C22_NeverRaises ==
  \A i \in Slots :
    LET result == git.calls[i].result
    IN  \/ result.type = "none"
        \/ /\ result.type = "returned"
           /\ \/ result.success /\ result.path # <<>> /\ result.error = <<>>
              \/ ~result.success /\ result.path = <<>> /\ result.error # <<>>

\* C25: what a call with an accepted URL and no target directory removes
\* lies strictly below temp_dir.
C25_DeletesOnlyBelowTempDir ==
  \A i \in Slots :
    PlacedInTempDir(git.calls[i]) =>
      LET top == resolve(git.calls[i].before, git.temp_dir).loc
      IN  \A l \in git.calls[i].deleted :
            Len(l) > Len(top) /\ SubSeq(l, 1, Len(top)) = top

\* The owner and the name of the repository a URL names.
repository(url) == <<Components(urlparse(url).path)[1], extract_repo_name(url).name>>

\* C26: two calls for different repositories, neither with a target
\* directory, have different target directories, and the working tree a
\* call has returned stays the one that call cloned.
C26_DistinctTargets ==
  \A i \in Slots : \A j \in Slots \ {i} :
    (/\ PlacedInTempDir(git.calls[i])
     /\ PlacedInTempDir(git.calls[j])
     /\ repository(git.calls[i].url) # repository(git.calls[j].url)) =>
      /\ (git.calls[i].pc # "done" /\ git.calls[j].pc # "done") =>
            git.calls[i].target_dir # git.calls[j].target_dir
      /\ (git.calls[i].result.type = "returned" /\ git.calls[i].result.success) =>
            LET at == resolve(git.disk, git.calls[i].result.path)
            IN  /\ at.found
                /\ git.disk[at.loc].snapshot = [url |-> git.calls[i].url, by |-> i]

\* C27: when the only call made returns failure for an accepted URL after
\* the clone has failed, a working tree that was at the target directory
\* when the call started is there as it was.
C27_FailureKeepsSnapshot ==
  \A i \in Slots :
    LET call == git.calls[i]
        at   == resolve(call.before, call.target_dir)
    IN  (/\ \A j \in Slots \ {i} : git.calls[j].pc = "idle"
         /\ call.pc = "done"
         /\ call.attempted
         /\ call.result.type = "returned"
         /\ ~call.result.success
         /\ at.found
         /\ call.before[at.loc].snapshot # NoSnapshot) =>
          /\ at.loc \in DOMAIN git.disk
          /\ git.disk[at.loc] = call.before[at.loc]
          /\ Children(git.disk, at.loc) = Children(call.before, at.loc)

(***************************************************************************)
(* Properties of render_progress_tracker                                   *)
(***************************************************************************)

\* C23: render_progress_tracker comes to an end; it calls get_status at most
\* max_iterations times, and after a call that fails or reports completed or
\* failed it calls it no more.
C23_Terminates ==
  /\ <>(tracker.pc # "polling")
  /\ [](tracker.polls <= max_iterations)
  /\ [][(\/ ~tracker.last.success
         \/ tracker.last.status \in {"completed", "failed"})
          => tracker'.polls = tracker.polls]_vars

\* The tracker has returned after max_iterations polls none of which ended it.
C23_Witness ==
  /\ tracker.pc = "returned"
  /\ tracker.polls = max_iterations
  /\ tracker.last.success
  /\ tracker.last.status = "processing"

(***************************************************************************)
(* Properties of LLMConfig                                                 *)
(***************************************************************************)

\* C28: the client a call of get_completion is handed and issues its request
\* with has not been closed before.
C28_ClientOpenAtUse ==
  \A t \in Tasks : llm.tasks[t].pc = "awaiting" => ~llm.tasks[t].closed_at_use

====
